---- MODULE Spec2Model ----
(***************************************************************************)
(* TrueWipe: storage-unit inventory and OS-partition classification, the   *)
(* multi-pass overwrite engine, the verification engine and the            *)
(* orchestrator that binds them (src/truewipe.js, src/engine/*.js and the  *)
(* file-I/O builds of the engine and the verifier).                        *)
(*                                                                         *)
(* One behaviour of the model is one call of an entry point of TrueWipe    *)
(* (executeWipe, executeAdvancedWipe or wipeDevice) on one host.  The      *)
(* asynchronous handler is cut at its awaits: detection, classification,   *)
(* the head of the wipe loop, every pass and every chunk write of the      *)
(* engine, every verification and the final return are separate steps.     *)
(*                                                                         *)
(* Storage is modelled per device path: content[d] is the sequence of      *)
(* 1 MiB chunks of d, each chunk carrying the fill that was last written   *)
(* to it ("orig" = the data present before the run).  Distinct paths are   *)
(* distinct regions.                                                       *)
(***************************************************************************)
EXTENDS Naturals, Sequences, FiniteSets

\* ------------------------------------------------------------- bounds
\* Largest number of storage units on the host.
MaxUnits == 2
\* Largest size of a unit, in chunks of the engine's chunk size (1 MiB).
MaxChunks == 2

\* ---------------------------------------------------- program constants
GutmannPasses == 35
PfitznerMin == 10
PfitznerSpan == 41

VARIABLES
    platform,        \* os.platform() of the host
    build,           \* which build of engine and verifier is installed
    host,            \* the storage units of the host, in enumeration order
    content,         \* content[d]: the chunks of device path d
    before,          \* content when the entry point was called
    call,            \* the entry point called and its arguments
    pc,              \* position of the handler
    partitions,      \* const partitions      (detectPartitions)
    osPartitions,    \* const osPartitions    (identifyOSPartitions)
    wipePartitions,  \* const wipePartitions  (the filter of step 3/4)
    i,               \* loop index of the wipe loop / the verify loop (1-based)
    eng,             \* position of the overwrite engine inside execute
    outcome,         \* what the call returned or threw
    sigFailed,       \* devices whose signature read raised an I/O error
    invoked,         \* devices the overwrite engine was called on, in order
    verified,        \* devices the verifier returned a result for, in order
    ran,             \* per call of the engine: its pass count and the passes begun
    event,           \* the last progress event the engine emitted
    vres,            \* the last result DataVerifier.verify returned
    ret,             \* the value returned by a function called on its own
    stop,            \* a stop of the run has been asked for
    shown,           \* what the caller's progressCallback has been called with
    client,          \* the remote client: currentJobId and its wipe_command handlers
    server           \* the admin panel: the wipe_jobs table and its pending queries

vars == <<platform, build, host, content, before, call, pc, partitions, osPartitions,
          wipePartitions, i, eng, outcome, sigFailed, invoked, verified, ran, event,
          vres, ret, stop, shown, client, server>>

\* ------------------------------------------------------------ helpers
Range(s) == {s[k] : k \in 1..Len(s)}

RECURSIVE SelectSeqBy(_, _)
\* Array.prototype.filter with the predicate given as the set of kept values.
SelectSeqBy(s, keep) ==
    IF s = <<>> THEN <<>>
    ELSE IF Head(s) \in keep THEN <<Head(s)>> \o SelectSeqBy(Tail(s), keep)
         ELSE SelectSeqBy(Tail(s), keep)

Devices(ps) == {ps[k].device : k \in 1..Len(ps)}

\* ------------------------------------------------- recognised names
\* SecureOverwriteEngine constructor: this.methods
Methods == {"1-pass", "3-pass", "7-pass", "gutmann", "schneier", "pfitzner"}
\* DataVerifier constructor: this.verificationMethods
VerificationMethods == {"quick", "thorough", "forensic", "military", "quantum"}

Platforms == {"win32", "linux", "darwin", "freebsd"}
\* "simulated": src/engine/overwrite.js and src/engine/verifier.js (progress
\* only, no I/O).  "sync" / "async": the two file-I/O builds of the engine,
\* installed together with the sampling verifier.
Builds == {"simulated", "sync", "async"}

\* ------------------------------------------------------------ the host
\* Device paths and mount points the host's units are drawn from.  "" is
\* lsblk's null mount point.
LinuxDevices == <<"/dev/sda1", "/dev/sda2", "/dev/sdb1", "/dev/sdb2">>
WindowsDevices == <<"\\\\.\\C:", "\\\\.\\D:", "\\\\.\\E:", "\\\\.\\F:">>
WindowsMounts == <<"C:\\", "D:\\", "E:\\", "F:\\">>
MacDevices == <<"/dev/disk0s1", "/dev/disk0s2", "/dev/disk1s1", "/dev/disk1s2">>
LinuxMounts == {"/", "/boot", "/home", ""}
MacMounts == {"/System/Volumes/Data", "/Volumes/Backup"}
\* A regular file outside the inventory (the test file of testRealWipe).
TestFile == "test_data_to_wipe.txt"

\* The hosts of platform p with n units.
HostsOf(p, n, linuxMounts) ==
    IF p = "win32"
    THEN {[k \in 1..n |-> [device |-> WindowsDevices[k], mountpoint |-> WindowsMounts[k]]]}
    ELSE IF p = "darwin"
    THEN {[k \in 1..n |-> [device |-> MacDevices[k], mountpoint |-> m[k]]] :
             m \in [1..n -> MacMounts]}
    ELSE {[k \in 1..n |-> [device |-> LinuxDevices[k], mountpoint |-> m[k]]] :
             m \in [1..n -> linuxMounts]}

\* ------------------------------------------------------ the inventory
Descriptor(device, mountpoint, isOS) ==
    [device |-> device, mountpoint |-> mountpoint, isOS |-> isOS]

\* detectWindowsPartitions: wmic, or on its failure the probing of the
\* drive letters; both give device, mount point and isOS = false.
detectWindowsPartitions(h) ==
    [k \in 1..Len(h) |-> Descriptor(h[k].device, h[k].mountpoint, FALSE)]

\* detectLinuxPartitions: lsblk; if lsblk fails /proc/partitions (mount
\* point 'Unknown'); if that fails too, the empty list.
detectLinuxPartitions(h, probe) ==
    IF probe = "ok"
    THEN [k \in 1..Len(h) |->
             Descriptor(h[k].device,
                        IF h[k].mountpoint = "" THEN "Not mounted" ELSE h[k].mountpoint,
                        FALSE)]
    ELSE IF probe = "fallback"
    THEN [k \in 1..Len(h) |-> Descriptor(h[k].device, "Unknown", FALSE)]
    ELSE <<>>

\* detectMacPartitions: diskutil list, mount point 'Unknown'; empty on failure.
detectMacPartitions(h, probe) ==
    IF probe = "ok"
    THEN [k \in 1..Len(h) |-> Descriptor(h[k].device, "Unknown", FALSE)]
    ELSE <<>>

\* device.includes('sda1') / drive === 'C:'
AssumedOS(p, device) ==
    IF p = "win32" THEN device = "\\\\.\\C:" ELSE device = "/dev/sda1"

\* detectGenericPartitions: the accessible ones of a fixed list of paths; the
\* first partition (C: on Windows) is flagged isOS.
detectGenericPartitions(p, h) ==
    IF p = "win32"
    THEN [k \in 1..Len(h) |->
             Descriptor(h[k].device, h[k].mountpoint, AssumedOS(p, h[k].device))]
    ELSE [k \in 1..Len(h) |->
             Descriptor(h[k].device, "Unknown", AssumedOS(p, h[k].device))]

\* detectPartitions: the probe of the platform; the generic detection on
\* any other platform.  (The platform probes catch their own errors, so
\* the catch of detectPartitions is never entered.)
detectPartitions(p, h, probe) ==
    IF p = "win32" THEN detectWindowsPartitions(h)
    ELSE IF p = "linux" THEN detectLinuxPartitions(h, probe)
    ELSE IF p = "darwin" THEN detectMacPartitions(h, probe)
    ELSE detectGenericPartitions(p, h)

\* The outcomes of the platform's enumeration command.
Probes(p) ==
    IF p = "linux" THEN {"ok", "fallback", "none"}
    ELSE IF p = "darwin" THEN {"ok", "none"}
    ELSE {"ok"}

\* ----------------------------------------------------- the classifier
\* String.prototype.includes on the mount points of the model.
MountIncludes(m, sub) ==
    IF sub = "/System" THEN m \in {"/System/Volumes/Data"}
    ELSE IF sub = "/Applications" THEN m \in {}
    ELSE FALSE

\* isOSPartition, the mount point checks (the code returns true here
\* before any signature is read).
IsOSMountPoint(p, partition) ==
    \/ p = "win32" /\ partition.mountpoint = "C:\\"
    \/ p = "linux" /\ partition.mountpoint \in {"/", "/boot", "/system"}
    \/ p = "darwin" /\ (\/ MountIncludes(partition.mountpoint, "/System")
                        \/ MountIncludes(partition.mountpoint, "/Applications"))

\* isOSPartition: after the mount point checks the signature is read and
\* the filesystem identified, but neither the filesystem found nor an I/O
\* error changes the answer: the function then returns false.
isOSPartition(p, partition, signatureReadFailed) ==
    IF IsOSMountPoint(p, partition) THEN TRUE
    ELSE IF signatureReadFailed THEN FALSE
    ELSE FALSE

\* identifyOSPartitions looking at the first partition only.
identifyOSPartitionsFirstOnly(p, ps, failed) ==
    IF Len(ps) > 0 /\ isOSPartition(p, ps[1], ps[1].device \in failed)
    THEN <<[ps[1] EXCEPT !.isOS = TRUE]>>
    ELSE <<>>

\* identifyOSPartitions: the partitions isOSPartition accepts, in order.
\* failed: the devices whose signature read fails.
identifyOSPartitions(p, ps, failed) ==
    LET os == {ps[k] : k \in {j \in 1..Len(ps) :
                               isOSPartition(p, ps[j], ps[j].device \in failed)}}
    IN  [k \in 1..Len(SelectSeqBy(ps, os)) |->
            [SelectSeqBy(ps, os)[k] EXCEPT !.isOS = TRUE]]

\* identifyOSPartitions sets partition.isOS = true on the very objects of
\* the partitions array.
MarkOS(p, ps, failed) ==
    [k \in 1..Len(ps) |->
        IF isOSPartition(p, ps[k], ps[k].device \in failed)
        THEN [ps[k] EXCEPT !.isOS = TRUE] ELSE ps[k]]

\* isSafeToWipe without the comparison of device paths.
isSafeToWipeAlways(devicePath, os) == TRUE

\* isSafeToWipe
isSafeToWipe(devicePath, os) ==
    ~ \E k \in 1..Len(os) : os[k].device = devicePath

\* The filter of step 3 dropped: every partition is kept.
FilterKeepsAll(ps, os) == ps

\* partitions.filter(p => !osPartitions.some(o => o.device === p.device))
FilterWipePartitions(ps, os) ==
    SelectSeqBy(ps, {x \in Range(ps) : ~ \E k \in 1..Len(os) : os[k].device = x.device})

\* ------------------------------------------------- the pass sequences
RECURSIVE Repeat(_, _)
Repeat(x, n) == IF n = 0 THEN <<>> ELSE <<x>> \o Repeat(x, n - 1)

\* The passes arrays with the loop of gutmannOverwrite one iteration short.
PassesGutmannShort(method, n) ==
    IF method = "1-pass" THEN <<"random">>
    ELSE IF method = "3-pass" THEN <<"0x00", "0xFF", "random">>
    ELSE IF method = "7-pass"
    THEN <<"0x00", "0xFF", "924924", "492492", "249249", "random", "random">>
    ELSE IF method = "gutmann" THEN Repeat("random1k", GutmannPasses - 1)
    ELSE IF method = "schneier"
    THEN <<"0x00", "0xFF", "random", "random", "random", "random", "random">>
    ELSE Repeat("random1k", n)

\* The passes array of each method.  "random": fresh random bytes for
\* every chunk; "random1k": one random 1024-byte buffer per pass, repeated
\* (gutmann, pfitzner).  n: the pass count drawn by pfitznerOverwrite.
Passes(method, n) ==
    IF method = "1-pass" THEN <<"random">>
    ELSE IF method = "3-pass" THEN <<"0x00", "0xFF", "random">>
    ELSE IF method = "7-pass"
    THEN <<"0x00", "0xFF", "924924", "492492", "249249", "random", "random">>
    ELSE IF method = "gutmann" THEN Repeat("random1k", GutmannPasses)
    ELSE IF method = "schneier"
    THEN <<"0x00", "0xFF", "random", "random", "random", "random", "random">>
    ELSE Repeat("random1k", n)

\* The values of Math.floor(Math.random() * 41) the model draws: the least,
\* its successor and the greatest.
PfitznerDraws == {0, 1, PfitznerSpan - 1}

\* Math.floor(Math.random() * 42) + 10
PfitznerCountsWide == {PfitznerMin + r : r \in PfitznerDraws \cup {PfitznerSpan}}

\* Math.floor(Math.random() * 41) + 10
PfitznerCounts == {PfitznerMin + r : r \in PfitznerDraws}

\* The pass counts a method can run with.
PassCounts(method) ==
    IF method = "pfitzner" THEN PfitznerCounts ELSE {Len(Passes(method, 0))}

\* ------------------------------------------------------ the call
NoCall == [entry |-> "", method |-> "", verificationLevel |-> "", devicePath |-> ""]
Running == [status |-> "running", error |-> "", partitionsWiped |-> 0,
            osPartitionsProtected |-> 0, reportPartitions |-> <<>>,
            standards |-> <<>>]
Threw(e) == [Running EXCEPT !.status = "threw", !.error = e]
Idle == [pass |-> 0, total |-> 0, size |-> 0, chunk |-> 0, open |-> FALSE]

\* No progress event emitted yet.
NoEvent == [kind |-> "none", pass |-> 0, totalPasses |-> 0]

\* The argument of progressCallback: onePassOverwrite reports a bare
\* percentage, the other methods { pass, totalPasses, name, progress }.
ProgressEvent(method, e) ==
    IF method = "1-pass"
    THEN [kind |-> "number", pass |-> 0, totalPasses |-> 0]
    ELSE [kind |-> "pass", pass |-> e.pass, totalPasses |-> e.total]

\* What the progress events of one pass amount to: their number, the
\* percentage of the last one, whether no percentage was lower than the
\* one before it, and the pass and totalPasses of the last one.
NoReports == [n |-> 0, last |-> 0, ordered |-> TRUE, pass |-> 0, totalPasses |-> 0]

\* One more call of progressCallback in the pass, with percentage pct.
Report(r, method, e, pct) ==
    [n |-> r.n + 1, last |-> pct,
     ordered |-> r.ordered /\ (r.n = 0 \/ r.last <= pct),
     pass |-> ProgressEvent(method, e).pass,
     totalPasses |-> ProgressEvent(method, e).totalPasses]

\* The calls of progressCallback of one pass with the percentages pcts,
\* one after the other.
ReportAll(method, e, pcts) ==
    [n |-> Len(pcts), last |-> pcts[Len(pcts)],
     ordered |-> \A a \in 1..(Len(pcts) - 1) : pcts[a] <= pcts[a + 1],
     pass |-> ProgressEvent(method, e).pass,
     totalPasses |-> ProgressEvent(method, e).totalPasses]

\* Math.floor((bytesWritten / size) * 100), and with chunks counted
\* Math.floor(((i + 1) / totalChunks) * 100)
Percent(written, size) == (written * 100) \div size

\* The simulated engine: for (let i = 0; i <= 100; i += step) progressCallback(i),
\* with the step of each method; every method but 1-pass reports the
\* start of the pass with progress 0 first.
SimulatedStep(method) ==
    IF method \in {"1-pass", "3-pass"} THEN 10
    ELSE IF method \in {"7-pass", "schneier"} THEN 5
    ELSE IF method = "gutmann" THEN 3
    ELSE 4

SimulatedPercentages(method) ==
    (IF method = "1-pass" THEN <<>> ELSE <<0>>)
    \o [k \in 1..((100 \div SimulatedStep(method)) + 1) |-> (k - 1) * SimulatedStep(method)]

\* A ratio a / b of two counters; den = 0 is the NaN of 0 / 0.
Ratio(a, b) == [num |-> a, den |-> b]

\* No function has been called on its own.
NoReturn == [fn |-> "none"]

\* No stop has been asked for.
NoStop == [asked |-> FALSE, run |-> 0, pass |-> 0, chunk |-> 0]

\* No verification has returned.
NoResult == [returned |-> FALSE, success |-> FALSE, confidence |-> Ratio(0, 0),
             clean |-> 0, total |-> 0, entropy |-> 0, diversity |-> 0]

\* The call is one of the two that work on the whole inventory.
WholeInventory == call.entry \in {"executeWipe", "executeAdvancedWipe"}

\* ------------------------------------- what the caller's callback gets
\* A progress value: a number, or the NaN of arithmetic on an object.
\* Percentages of the engine and the verifier are kept in hundredths, the
\* overall values of the entry points in hundredths times the number of
\* wipeable units, so that the divisions by wipePartitions.length are exact.
Number(v) == [nan |-> FALSE, v |-> v]
NotANumber == [nan |-> TRUE, v |-> 0]

\* progress.progress || progress of an event with percentage p: of a bare
\* number the number, of an object its progress, but of an object whose
\* progress is 0 the object itself.
Reported(bare, p) == IF ~ bare /\ p = 0 THEN NotANumber ELSE Number(p)

\* progress: 100, in the unit of the overall values.
Full == 100 * 100 * Len(wipePartitions)

\* The shares of the wipe loop and of the verify loop: 0.6 and 0.3 in
\* executeWipe, 0.7 and 0.25 in executeAdvancedWipe.
WipeWeight == IF call.entry = "executeWipe" THEN 60 ELSE 70
VerifyWeight == IF call.entry = "executeWipe" THEN 30 ELSE 25

\* partitionProgress * 100 and verificationProgress * 100 at the head of
\* iteration i of a loop with share weight.
OverallAtHead(weight) == Number(100 * weight * (i - 1))

\* (partitionProgress + (progress.progress || progress) * 0.6 / wipePartitions.length) * 100
Overall(weight, r) ==
    IF r.nan THEN NotANumber ELSE Number(100 * weight * (i - 1) + weight * r.v)

\* The calls of the caller's progressCallback so far: the kind of the last
\* one, the last progress number, whether every progress value was a
\* number from 0 to 100, whether no number was lower than the number right before it,
\* whether an event before the completion event carried 100, the number of
\* error events and the error of the last one, the number of completion
\* events, and whether an event came after an error event.
NoneShown == [kind |-> "none", seen |-> FALSE, value |-> 0, numbers |-> TRUE,
              ordered |-> TRUE, early100 |-> FALSE, errors |-> 0, error |-> "",
              completed |-> 0, afterError |-> FALSE]

\* progressCallback({ step, totalSteps, message }): no progress value.
ShowStep(s) == [s EXCEPT !.kind = "step", !.afterError = @ \/ s.errors > 0]

\* The view s after progress events with the values vals, one after the
\* other.
ShowValues(s, vals) ==
    [s EXCEPT
       !.kind = "progress",
       !.seen = @ \/ \E k \in DOMAIN vals : ~ vals[k].nan,
       !.value = IF \A k \in DOMAIN vals : vals[k].nan THEN @
                 ELSE vals[CHOOSE k \in DOMAIN vals :
                             /\ ~ vals[k].nan
                             /\ \A j \in DOMAIN vals : j > k => vals[j].nan].v,
       !.numbers = @ /\ \A k \in DOMAIN vals : ~ vals[k].nan /\ vals[k].v <= Full,
       !.ordered = /\ @
                   /\ \A a \in DOMAIN vals :
                         \/ (a + 1) \notin DOMAIN vals
                         \/ vals[a].nan
                         \/ vals[a + 1].nan
                         \/ vals[a].v <= vals[a + 1].v
                   /\ (s.seen /\ DOMAIN vals # {} /\ ~ vals[1].nan)
                         => s.value <= vals[1].v,
       !.early100 = @ \/ \E k \in DOMAIN vals : ~ vals[k].nan /\ vals[k].v = Full,
       !.afterError = @ \/ s.errors > 0]

\* progressCallback({ step, totalSteps, message, progress }), once for each
\* of the values vals (the view and the values are evaluated once).
ShowProgress(s, vals) ==
    CHOOSE t \in {ShowValues(a, v) : a \in {s}, v \in {vals}} : TRUE

\* progressCallback({ ..., message: 'Wipe process completed successfully', progress: 100 })
ShowCompleted(s) ==
    [s EXCEPT !.kind = "completed",
              !.seen = TRUE,
              !.value = Full,
              !.ordered = @ /\ (s.seen => s.value <= Full),
              !.completed = @ + 1,
              !.afterError = @ \/ s.errors > 0]

\* The catch block without its call of progressCallback.
ShowErrorSilent(s, e) == s

\* The catch block: progressCallback({ error: error.message })
ShowError(s, e) ==
    [s EXCEPT !.kind = "error", !.errors = @ + 1, !.error = e,
              !.afterError = @ \/ s.errors > 0]


\* The passes begun on a unit at each evaluation of isSafeToWipe for it:
\* the entry points evaluate it once, before execute is called; execute
\* itself evaluates nothing.
GatedAt(entry) == IF entry = "execute" THEN <<>> ELSE <<0>>

\* The device the current iteration (or wipeDevice, or execute called on
\* its own) works on.
CurrentDevice ==
    IF call.entry \in {"wipeDevice", "execute"} THEN call.devicePath
    ELSE wipePartitions[i].device

\* The level handed to verifier.verify: executeWipe and wipeDevice pass
\* the literal 'thorough'.
LevelUsed ==
    IF call.entry = "executeAdvancedWipe" THEN call.verificationLevel ELSE "thorough"

Original(c) == [k \in 1..c |-> "orig"]

\* --------------------------------------------------- the remote control
\* The wipe jobs the admin panel has created (INSERT INTO wipe_jobs ...
\* 'pending'), by id.
MaxJobs == 2
Jobs == 1..MaxJobs

\* No job_status_update emitted yet.  by: the job whose wipe_command
\* handler (or whose wipe) emitted the update.
NoUpdate == [jobId |-> 0, status |-> "", progress |-> 0, by |-> 0]

\* The client after start: let currentJobId = null, no wipe_command
\* received.  terminal[j]: the terminal updates emitted with jobId = j;
\* strayed: an in-progress update of one job's wipe carried another jobId.
NoClient ==
    [currentJobId |-> 0,
     wipe |-> [j \in Jobs |-> [pc |-> "none", progress |-> 0]],
     terminal |-> [j \in Jobs |-> 0],
     strayed |-> FALSE,
     last |-> NoUpdate]

\* socket.emit('job_status_update', { jobId: currentJobId, status, progress })
\* by the handler or the wipe of job j.
Emit(c, j, status, progress) ==
    [c EXCEPT
       !.last = [jobId |-> c.currentJobId, status |-> status,
                 progress |-> progress, by |-> j],
       !.strayed = @ \/ (status = "in-progress" /\ c.currentJobId # j),
       !.terminal = IF status \in {"completed", "failed"} /\ c.currentJobId \in Jobs
                    THEN [@ EXCEPT ![c.currentJobId] = @ + 1]
                    ELSE @]

\* The columns of wipe_jobs.
JobColumns ==
    {"id", "device_id", "method", "status", "started_at", "completed_at", "result"}

\* The bound on the queries waiting for the database.
MaxQueries == 2

\* No query has been run yet.
NoQuery == [jobId |-> 0, status |-> "", progress |-> "undefined",
            err |-> FALSE, broadcast |-> FALSE]

\* The admin panel after the jobs were created: every job 'pending'.
ServerStart ==
    [jobs |-> [j \in Jobs |-> [status |-> "pending", result |-> "null"]],
     queue |-> <<>>,
     last |-> NoQuery]

\* The state after construction, on a host of platform p.
InitOn(platforms, builds, linuxMounts, sizes) ==
    /\ platform \in platforms
    /\ build \in builds
    /\ \E n \in 0..MaxUnits : host \in HostsOf(platform, n, linuxMounts)
    /\ \E c \in sizes :
          content = [d \in Devices(host) \cup {TestFile} |-> Original(c)]
    /\ before = content
    /\ call = NoCall
    /\ pc = "idle"
    /\ partitions = <<>>
    /\ osPartitions = <<>>
    /\ wipePartitions = <<>>
    /\ i = 0
    /\ eng = Idle
    /\ outcome = Running
    /\ sigFailed = {}
    /\ invoked = <<>>
    /\ verified = <<>>
    /\ ran = <<>>
    /\ event = NoEvent
    /\ vres = NoResult
    /\ ret = NoReturn
    /\ stop = NoStop
    /\ shown = NoneShown
    /\ client = NoClient
    /\ server = ServerStart

\* ------------------------------------------------ the entry points
Call(entry, method, level, path) ==
    [entry |-> entry, method |-> method, verificationLevel |-> level,
     devicePath |-> path]

\* executeWipe(method, progressCallback)
executeWipe(methods) ==
    /\ pc = "idle"
    /\ \E m \in methods : call' = Call("executeWipe", m, "", "")
    /\ pc' = "detect"
    /\ shown' = ShowStep(shown)
    /\ UNCHANGED <<platform, build, host, before, client, server, ret, stop, ran, event, vres, content, partitions, osPartitions,
                   wipePartitions, i, eng, outcome, sigFailed, invoked, verified>>

\* executeAdvancedWipe(method, verificationLevel, progressCallback)
executeAdvancedWipe(methods, levels) ==
    /\ pc = "idle"
    /\ \E m \in methods, v \in levels : call' = Call("executeAdvancedWipe", m, v, "")
    /\ pc' = "detect"
    /\ shown' = ShowStep(shown)
    /\ UNCHANGED <<platform, build, host, before, client, server, ret, stop, ran, event, vres, content, partitions, osPartitions,
                   wipePartitions, i, eng, outcome, sigFailed, invoked, verified>>

\* wipeDevice(devicePath, method, progressCallback)
wipeDevice(methods) ==
    /\ pc = "idle"
    /\ \E m \in methods, d \in DOMAIN content : call' = Call("wipeDevice", m, "", d)
    /\ pc' = "detect"
    /\ UNCHANGED <<platform, build, host, before, client, server, shown, ret, stop, ran, event, vres, content, partitions, osPartitions,
                   wipePartitions, i, eng, outcome, sigFailed, invoked, verified>>

\* overwriteEngine.execute(method, devicePath, progressCallback) called
\* on its own, on a unit of the host or on the test file.
execute(methods) ==
    /\ pc = "idle"
    /\ \E m \in methods, d \in DOMAIN content : call' = Call("execute", m, "", d)
    /\ pc' = "wipe"
    /\ i' = 1
    /\ UNCHANGED <<platform, build, host, before, client, server, shown, ret, stop, ran, event, vres, content, partitions,
                   osPartitions, wipePartitions, eng, outcome, sigFailed, invoked, verified>>

\* The caller asks for the run to stop while a pass is writing.  No entry
\* point and no method of the engine takes a stop signal: the request
\* changes nothing the code reads.
requestStop ==
    /\ pc = "pass"
    /\ eng.open
    /\ ~ stop.asked
    /\ stop' = [asked |-> TRUE, run |-> Len(ran), pass |-> eng.pass, chunk |-> eng.chunk]
    /\ UNCHANGED <<platform, build, host, before, client, server, shown, ret, ran, event, vres, content, call, pc,
                   partitions, osPartitions, wipePartitions, i, eng, outcome, sigFailed,
                   invoked, verified>>

\* const partitions = await this.partitionDetector.detectPartitions()
DetectStep ==
    /\ pc = "detect"
    /\ \E probe \in Probes(platform) :
          partitions' = detectPartitions(platform, host, probe)
    /\ pc' = "identify"
    /\ shown' = IF WholeInventory THEN ShowStep(shown) ELSE shown
    /\ UNCHANGED <<platform, build, host, before, client, server, ret, stop, ran, event, vres, content, call, osPartitions,
                   wipePartitions, i, eng, outcome, sigFailed, invoked, verified>>

\* The events after identifyOSPartitions has returned: step 3 of
\* executeAdvancedWipe ('Hardware-level OS verification'), and the error
\* event of the catch block when no partition is left for wiping.
ShownAtIdentify(s, n) ==
    IF ~ WholeInventory THEN s
    ELSE LET s1 == IF call.entry = "executeAdvancedWipe" THEN ShowStep(s) ELSE s
         IN  IF n = 0 THEN ShowError(s1, "NoPartitions") ELSE s1

\* const osPartitions = await identifyOSPartitions(partitions), then the
\* filter and the empty check (executeWipe, executeAdvancedWipe) or the
\* isSafeToWipe check (wipeDevice).
IdentifyStep ==
    /\ pc = "identify"
    /\ \E failed \in SUBSET {partitions[k].device : k \in
                               {j \in 1..Len(partitions) :
                                  ~ IsOSMountPoint(platform, partitions[j])}} :
          LET os == identifyOSPartitions(platform, partitions, failed)
              ps == MarkOS(platform, partitions, failed)
              wp == FilterWipePartitions(ps, os)
          IN  /\ sigFailed' = failed
              /\ partitions' = ps
              /\ osPartitions' = os
              /\ IF call.entry = "wipeDevice"
                 THEN /\ wipePartitions' = <<>>
                      /\ IF isSafeToWipe(call.devicePath, os)
                         THEN pc' = "wipe" /\ outcome' = outcome
                         ELSE pc' = "done" /\ outcome' = Threw("Protected")
                 ELSE /\ wipePartitions' = wp
                      /\ IF Len(wp) = 0
                         THEN pc' = "done" /\ outcome' = Threw("NoPartitions")
                         ELSE pc' = "wipe" /\ outcome' = outcome
              /\ shown' = ShownAtIdentify(shown, Len(wp))
    /\ i' = 1
    /\ UNCHANGED <<platform, build, host, before, client, server, ret, stop, ran, event, vres, content, call, eng, invoked, verified>>

\* The number of units the wipe loop and the verify loop run over
\* (wipeDevice works on its one device path).
NumTargets ==
    IF call.entry \in {"wipeDevice", "execute"} THEN 1 ELSE Len(wipePartitions)

\* ------------------------------------------------- the overwrite engine
\* execute without the lookup of the method in this.methods.
ExecuteRejectsPathOnly(method, devicePath) ==
    IF devicePath = "" THEN "DevicePathRequired" ELSE ""

\* SecureOverwriteEngine.execute, up to the call of the method: the
\* method must be one of this.methods and the device path non-empty.
ExecuteRejects(method, devicePath) ==
    IF method \notin Methods THEN "UnknownMethod"
    ELSE IF devicePath = "" THEN "DevicePathRequired"
    ELSE ""

\* The events of the start of a wipe loop iteration: the progress at its
\* head, and the error event of the catch block when execute rejects its
\* arguments.
ShownAtExecute(s) ==
    IF ~ WholeInventory THEN s
    ELSE LET head == ShowProgress(s, <<OverallAtHead(WipeWeight)>>)
         IN  IF isSafeToWipe(CurrentDevice, osPartitions)
                /\ ExecuteRejects(call.method, CurrentDevice) # ""
             THEN ShowError(head, ExecuteRejects(call.method, CurrentDevice))
             ELSE head

\* One iteration of the wipe loop up to the call of the engine: the
\* isSafeToWipe gate (continue), then execute, which throws on an unknown
\* method or starts the method's passes; a pfitzner run draws its pass count.
ExecuteStep ==
    /\ pc = "wipe"
    /\ i <= NumTargets
    /\ IF WholeInventory /\ ~ isSafeToWipe(CurrentDevice, osPartitions)
       THEN /\ i' = i + 1
            /\ UNCHANGED <<pc, eng, outcome, invoked, ran>>
       ELSE IF ExecuteRejects(call.method, CurrentDevice) # ""
       THEN /\ pc' = "done"
            /\ outcome' = Threw(ExecuteRejects(call.method, CurrentDevice))
            /\ UNCHANGED <<i, eng, invoked, ran>>
       ELSE /\ \E n \in PassCounts(call.method) :
                  /\ eng' = [pass |-> 1, total |-> n, size |-> 0, chunk |-> 0,
                             open |-> FALSE]
                  /\ ran' = Append(ran, [total |-> n, fills |-> <<>>, chunks |-> <<>>,
                                          reports |-> <<>>,
                                          gatedAt |-> GatedAt(call.entry)])
            /\ invoked' = Append(invoked, CurrentDevice)
            /\ pc' = "pass"
            /\ UNCHANGED <<i, outcome>>
    /\ shown' = ShownAtExecute(shown)
    /\ UNCHANGED <<platform, build, host, before, client, server, ret, stop, event, vres, content, call, partitions,
                   osPartitions, wipePartitions, sigFailed, verified>>

\* What opening the device for a pass does to it and the size the pass
\* will write.  async: fs.stat, then fs.open(devicePath, 'w'), which
\* truncates; sync: fs.openSync(devicePath, 'w') first, then fstat of the
\* truncated file; simulated: no file is opened.
SizeAtOpen(b, c) == IF b = "async" THEN Len(c) ELSE 0
ContentAtOpen(b, c) == IF b = "simulated" THEN c ELSE <<>>

\* The head of the pass loop: the device is opened for pass eng.pass.  The
\* simulated engine reports the start of the pass.
BeginPass ==
    /\ pc = "pass"
    /\ ~ eng.open
    /\ eng' = [eng EXCEPT !.open = TRUE, !.chunk = 0,
                          !.size = SizeAtOpen(build, content[CurrentDevice])]
    /\ content' = [content EXCEPT
                     ![CurrentDevice] = ContentAtOpen(build, content[CurrentDevice])]
    /\ ran' = [ran EXCEPT ![Len(ran)].fills =
                                Append(@, Passes(call.method, eng.total)[eng.pass]),
                           ![Len(ran)].chunks = Append(@, 0),
                           ![Len(ran)].reports =
                                Append(@, IF build = "simulated"
                                          THEN ReportAll(call.method, eng,
                                                         SimulatedPercentages(call.method))
                                          ELSE NoReports)]
    /\ event' = IF build = "simulated" THEN ProgressEvent(call.method, eng) ELSE event
    /\ shown' = IF WholeInventory /\ build = "simulated"
                THEN ShowProgress(shown,
                        [k \in 1..Len(SimulatedPercentages(call.method)) |->
                            Overall(WipeWeight,
                                    Reported(call.method = "1-pass",
                                             100 * SimulatedPercentages(call.method)[k]))])
                ELSE shown
    /\ UNCHANGED <<platform, build, host, before, client, server, ret, stop, vres, call, pc, partitions, osPartitions,
                   wipePartitions, i, outcome, sigFailed, invoked, verified>>

\* fileHandle.write(buffer, 0, buffer.length, i * chunkSize): chunk
\* eng.chunk + 1 of the pass gets the fill of the pass, and the progress of
\* the pass is reported.
WrittenChunk(c, e, method) == Append(c, Passes(method, e.total)[e.pass])

WriteChunk ==
    /\ pc = "pass"
    /\ eng.open
    /\ eng.chunk < eng.size
    /\ content' = [content EXCEPT
                     ![CurrentDevice] = WrittenChunk(content[CurrentDevice], eng, call.method)]
    /\ eng' = [eng EXCEPT !.chunk = eng.chunk + 1]
    /\ ran' = [ran EXCEPT ![Len(ran)].chunks[eng.pass] = @ + 1,
                           ![Len(ran)].reports[eng.pass] =
                                Report(@, call.method, eng, Percent(eng.chunk + 1, eng.size))]
    /\ event' = ProgressEvent(call.method, eng)
    /\ shown' = IF WholeInventory
                THEN ShowProgress(shown,
                        <<Overall(WipeWeight,
                                  Reported(call.method = "1-pass",
                                           100 * Percent(eng.chunk + 1, eng.size)))>>)
                ELSE shown
    /\ UNCHANGED <<platform, build, host, before, client, server, ret, stop, vres, call, pc, partitions, osPartitions,
                   wipePartitions, i, outcome, sigFailed, invoked, verified>>

\* A chunk write raises an I/O error and the wipe loop catches it per
\* unit: the error is logged and the loop goes on with the next unit.
WriteFailsSkipsUnit ==
    /\ pc = "pass"
    /\ eng.open
    /\ eng.chunk < eng.size
    /\ pc' = "wipe"
    /\ i' = i + 1
    /\ eng' = Idle
    /\ outcome' = [outcome EXCEPT !.error = "WriteFailure"]
    /\ UNCHANGED <<platform, build, host, before, client, server, shown, ret, stop, ran, event, vres, content, call, partitions, osPartitions,
                   wipePartitions, sigFailed, invoked, verified>>

\* A chunk write raises an I/O error and the chunk loop catches it: the
\* error is logged and the pass goes on writing.
WriteFailsResumes ==
    /\ pc = "pass"
    /\ eng.open
    /\ eng.chunk < eng.size
    /\ outcome' = [outcome EXCEPT !.error = "WriteFailure"]
    /\ UNCHANGED <<platform, build, host, before, client, server, shown, ret, stop, ran, event, vres, content, call, pc, partitions,
                   osPartitions, wipePartitions, i, eng, sigFailed, invoked, verified>>

\* A chunk write raises an I/O error: the pass loop and the method are
\* left by the exception, execute rethrows it, and so does the caller's
\* catch block.
WriteFails ==
    /\ pc = "pass"
    /\ eng.open
    /\ eng.chunk < eng.size
    /\ pc' = "done"
    /\ outcome' = Threw("WriteFailure")
    /\ shown' = IF WholeInventory THEN ShowError(shown, "WriteFailure") ELSE shown
    /\ UNCHANGED <<platform, build, host, before, client, server, ret, stop, ran, event, vres, content, call, partitions, osPartitions,
                   wipePartitions, i, eng, sigFailed, invoked, verified>>

\* The chunk loop of a pass left before its last chunk.
EndPassEarly ==
    /\ pc = "pass"
    /\ eng.open
    /\ eng.chunk <= eng.size
    /\ IF eng.pass < eng.total
       THEN /\ eng' = [eng EXCEPT !.pass = eng.pass + 1, !.open = FALSE]
            /\ UNCHANGED <<pc, i>>
       ELSE /\ eng' = Idle
            /\ pc' = "wipe"
            /\ i' = i + 1
    /\ UNCHANGED <<platform, build, host, before, client, server, shown, ret, stop, ran, event, vres, content, call, partitions, osPartitions,
                   wipePartitions, outcome, sigFailed, invoked, verified>>

\* All chunks of the pass are written: the file is closed and the next
\* pass begins, or after the last pass execute returns to its caller,
\* which goes on with the next iteration of the wipe loop.
EndPass ==
    /\ pc = "pass"
    /\ eng.open
    /\ eng.chunk = eng.size
    /\ IF eng.pass < eng.total
       THEN /\ eng' = [eng EXCEPT !.pass = eng.pass + 1, !.open = FALSE]
            /\ UNCHANGED <<pc, i>>
       ELSE /\ eng' = Idle
            /\ pc' = "wipe"
            /\ i' = i + 1
    /\ UNCHANGED <<platform, build, host, before, client, server, shown, ret, stop, ran, event, vres, content, call, partitions, osPartitions,
                   wipePartitions, outcome, sigFailed, invoked, verified>>

\* The wipe loop left one iteration early: i < wipePartitions.length - 1.
WipeLoopExitEarly ==
    /\ pc = "wipe"
    /\ i >= NumTargets
    /\ IF call.entry = "execute"
       THEN pc' = "done" /\ outcome' = [Running EXCEPT !.status = "returned"]
       ELSE pc' = "verify" /\ outcome' = outcome
    /\ i' = 1
    /\ shown' = IF WholeInventory THEN ShowStep(shown) ELSE shown
    /\ UNCHANGED <<platform, build, host, before, client, server, ret, stop, ran, event, vres, content, call, partitions, osPartitions,
                   wipePartitions, eng, sigFailed, invoked, verified>>

\* The wipe loop never left: its exit test is never true.
WipeLoopExitNever ==
    /\ pc = "wipe"
    /\ i > NumTargets + 1
    /\ pc' = "verify"
    /\ i' = 1
    /\ shown' = IF WholeInventory THEN ShowStep(shown) ELSE shown
    /\ UNCHANGED <<platform, build, host, before, client, server, ret, stop, ran, event, vres, content, call, partitions, osPartitions,
                   wipePartitions, eng, outcome, sigFailed, invoked, verified>>

\* The wipe loop is over: the verification loop starts.  execute called
\* on its own returns to its caller.
WipeLoopExit ==
    /\ pc = "wipe"
    /\ i > NumTargets
    /\ IF call.entry = "execute"
       THEN pc' = "done" /\ outcome' = [Running EXCEPT !.status = "returned"]
       ELSE pc' = "verify" /\ outcome' = outcome
    /\ i' = 1
    /\ shown' = IF WholeInventory THEN ShowStep(shown) ELSE shown
    /\ UNCHANGED <<platform, build, host, before, client, server, ret, stop, ran, event, vres, content, call, partitions, osPartitions,
                   wipePartitions, eng, sigFailed, invoked, verified>>

\* ---------------------------------------------------- the verifier
\* Bytes of one chunk of a unit's content: the chunkSize of the engine.
ChunkBytes == 1048576

Min(a, b) == IF a < b THEN a ELSE b

\* Math.ceil(a / b)
CeilDiv(a, b) == (a + b - 1) \div b

\* The fills whose bytes are known: the fixed values and patterns the
\* engine writes, and "ramp": the bytes 0, 1, ..., 255, 0, 1, ...
KnownFills == {"0x00", "0xFF", "ramp", "924924", "492492", "249249"}

\* buffer[j] after a read at the position of byte j of a unit filled with f.
\* A pattern buffer restarts at every chunk the engine writes.
Byte(f, j) ==
    IF f = "0x00" THEN 0
    ELSE IF f = "0xFF" THEN 255
    ELSE IF f = "ramp" THEN j % 256
    ELSE IF f = "924924" THEN <<146, 73, 36>>[((j % ChunkBytes) % 3) + 1]
    ELSE IF f = "492492" THEN <<73, 36, 146>>[((j % ChunkBytes) % 3) + 1]
    ELSE <<36, 146, 73>>[((j % ChunkBytes) % 3) + 1]

\* What a buffer of bytes the model does not know looks like to the
\* verifier.  "noise": no byte value stands out, no 16-byte run repeats;
\* "noise1k": the same over a 1024-byte period; "mixed": between a tenth and
\* nine tenths of the leading bytes are zero; "blank": zero bytes only.
Looks(f) ==
    IF f = "random" THEN {"noise", "mixed"}
    ELSE IF f = "random1k" THEN {"noise1k", "mixed"}
    ELSE {"noise", "mixed", "blank"}

\* The choices of a look for each unknown fill of content c.
Picks(c) ==
    {p \in [(Range(c) \ KnownFills) -> {"noise", "noise1k", "mixed", "blank"}] :
        \A f \in DOMAIN p : p[f] \in Looks(f)}

\* zeroCount of isSectorClean: the zero bytes among the first n bytes of a
\* buffer read at position pos of a unit filled with f.
ZeroCount(f, pos, n, look) ==
    IF f \in KnownFills THEN Cardinality({j \in 0..(n - 1) : Byte(f, pos + j) = 0})
    ELSE IF look = "blank" THEN n
    ELSE IF look = "mixed" THEN n \div 2
    ELSE n \div 256

\* isSectorClean(buffer), buffer.length = len: zeroRatio > 0.9 or < 0.1.
\* With len = 0 the ratio is 0 / 0 = NaN and both comparisons are false.
isSectorClean(f, pos, len, look) ==
    LET n == Min(len, 1024)
        zeroCount == ZeroCount(f, pos, n, look)
    IN  /\ n # 0
        /\ \/ 10 * zeroCount > 9 * n
           \/ 10 * zeroCount < n

\* calculateEntropy(buffer) in thousandths, rounded down: the Shannon
\* entropy of the first 4096 bytes over 8.  One byte value: 0; the three
\* values of a pattern in equal parts: log2(3) / 8; the 256 values in equal
\* parts: 1; 4096 (1024) random bytes: about 7.95 (7.82) bits; half zero,
\* half random: about 5 bits.
calculateEntropy(f, look) ==
    IF f \in {"0x00", "0xFF"} THEN 0
    ELSE IF f = "ramp" THEN 1000
    ELSE IF f \in KnownFills THEN 198
    ELSE IF look = "blank" THEN 0
    ELSE IF look = "mixed" THEN 625
    ELSE IF look = "noise1k" THEN 977
    ELSE 994

\* buffer.slice(16 k, 16 k + 16) of a buffer read at position pos.
Slice16(f, pos, k) == [t \in 1..16 |-> Byte(f, pos + (16 * k) + t - 1)]

\* calculatePatternDiversity(buffer) in thousandths, rounded down: the
\* distinct 16-byte slices among the 128 slices of the first 2048 bytes.
calculatePatternDiversity(f, pos, look) ==
    IF f \in KnownFills
    THEN (1000 * Cardinality({Slice16(f, pos, k) : k \in 0..127})) \div 128
    ELSE IF look = "blank" THEN 1000 \div 128
    ELSE IF look = "mixed" THEN (1000 * 65) \div 128
    ELSE IF look = "noise1k" THEN (1000 * 64) \div 128
    ELSE 1000

\* The chunkSize and the cap on chunksToCheck of each level but quick.
VerifyChunkSize(level) ==
    IF level = "thorough" THEN 1024 * 1024
    ELSE IF level = "forensic" THEN 512 * 1024
    ELSE IF level = "military" THEN 256 * 1024
    ELSE 128 * 1024

VerifyChunkCap(level) ==
    IF level = "thorough" THEN 100
    ELSE IF level = "forensic" THEN 200
    ELSE IF level = "military" THEN 500
    ELSE 1000

\* quickVerification: the number of samples.
QuickSamples == 10

\* buffer.length of the reads of a level on a unit of size bytes.
BufferLength(level, size) ==
    IF level = "quick" THEN Min(Min(1024 * 1024, size) \div QuickSamples, 64 * 1024)
    ELSE VerifyChunkSize(level)

\* The positions a level reads at, on a unit of len chunks.  quick draws
\* its positions with Math.random: the draws are sampled at the starts of
\* the chunks, in every split of the samples over the chunks.  The other
\* levels spread chunksToCheck positions over size - chunkSize.
Positions(level, len) ==
    LET size == len * ChunkBytes
    IN  IF level = "quick"
        THEN IF len = 0 THEN {[k \in 1..QuickSamples |-> 0]}
             ELSE {[k \in 1..QuickSamples |->
                       ChunkBytes * Cardinality({t \in DOMAIN cut : cut[t] < k})] :
                     cut \in {x \in [1..(len - 1) -> 0..QuickSamples] :
                                \A t \in DOMAIN x : t = 1 \/ x[t - 1] <= x[t]}}
        ELSE LET chunksToCheck == Min(VerifyChunkCap(level),
                                      CeilDiv(size, VerifyChunkSize(level)))
             IN  {[k \in 1..chunksToCheck |->
                     ((k - 1) * (size - VerifyChunkSize(level))) \div chunksToCheck]}

RECURSIVE SumTo(_, _)
SumTo(s, n) == IF n = 0 THEN 0 ELSE s[n] + SumTo(s, n - 1)

\* const isClean = ... of each level, on the counts and the sums (in
\* thousandths) of the loop.  With total = 0 every mean is NaN and every
\* comparison false.
IsClean(level, clean, total, entropy, diversity) ==
    /\ total # 0
    /\ IF level = "quick" THEN 10 * clean > 9 * total
       ELSE IF level = "thorough" THEN 100 * clean > 95 * total
       ELSE IF level = "forensic"
       THEN 100 * clean > 98 * total /\ entropy > 800 * total
       ELSE IF level = "military"
       THEN 100 * clean > 99 * total /\ diversity > 700 * total
       ELSE /\ 1000 * clean > 995 * total
            /\ (6 * entropy) + (4 * diversity) > 9000 * total

\* The result of a level of the sampling verifier on content c, read at
\* the positions ps, the unknown fills looking as pick says.
SamplingResult(level, c, ps, pick) ==
    LET size == Len(c) * ChunkBytes
        len == BufferLength(level, size)
        n == Len(ps)
        fill(k) == c[(ps[k] \div ChunkBytes) + 1]
        look(k) == IF fill(k) \in KnownFills THEN "" ELSE pick[fill(k)]
        clean == Cardinality({k \in 1..n :
                     len # 0 /\ isSectorClean(fill(k), ps[k], len, look(k))})
        entropy == IF level \in {"forensic", "quantum"}
                   THEN SumTo([k \in 1..n |-> calculateEntropy(fill(k), look(k))], n)
                   ELSE 0
        diversity == IF level \in {"military", "quantum"}
                     THEN SumTo([k \in 1..n |->
                                   calculatePatternDiversity(fill(k), ps[k], look(k))], n)
                     ELSE 0
    IN  [returned |-> TRUE,
         success |-> IsClean(level, clean, n, entropy, diversity),
         confidence |-> Ratio(clean, n),
         clean |-> clean, total |-> n,
         entropy |-> entropy, diversity |-> diversity]

\* The result of a level of the simulated verifier: nothing is read, the
\* confidence is the constant of the level.
SimulatedResult(level) ==
    [NoResult EXCEPT
       !.returned = TRUE,
       !.success = TRUE,
       !.confidence = IF level = "quick" THEN Ratio(95, 100)
                      ELSE IF level = "thorough" THEN Ratio(99, 100)
                      ELSE IF level = "forensic" THEN Ratio(999, 1000)
                      ELSE IF level = "military" THEN Ratio(9999, 10000)
                      ELSE Ratio(99999, 100000)]

\* The results verify(devicePath, level) can return on content c.
VerifyResults(b, level, c) ==
    IF b = "simulated" THEN {SimulatedResult(level)}
    ELSE {SamplingResult(level, c, ps, pick) :
            ps \in Positions(level, Len(c)), pick \in Picks(c)}

\* The unit opened with 'w' instead: the open truncates it.
ContentAfterVerifyTruncates(c) == <<>>

\* The content of a unit after verify: fs.openSync(devicePath, 'r') and
\* reads only; the simulated verifier opens nothing.
ContentAfterVerify(c) == c

\* verifier.verify(devicePath, level) called on its own: the level is
\* checked first, then the path, then the level's method runs.
verify(levels) ==
    /\ pc = "idle"
    /\ \E v \in levels, d \in DOMAIN content \cup {""} :
          /\ call' = Call("verify", "", v, d)
          /\ IF v \notin VerificationMethods
             THEN /\ outcome' = Threw("UnknownVerificationMethod")
                  /\ UNCHANGED <<vres, content>>
             ELSE IF d = ""
             THEN /\ outcome' = Threw("DevicePathRequired")
                  /\ UNCHANGED <<vres, content>>
             ELSE \E r \in VerifyResults(build, v, content[d]) :
                     /\ vres' = r
                     /\ content' = [content EXCEPT ![d] = ContentAfterVerify(content[d])]
                     /\ outcome' = [Running EXCEPT !.status = "returned"]
    /\ pc' = "done"
    /\ UNCHANGED <<platform, build, host, before, client, server, shown, ret, stop, ran, event, partitions, osPartitions,
                   wipePartitions, i, eng, sigFailed, invoked, verified>>

\* The simulated levels: the weights of their phases, in hundredths, and
\* the step of the loop of each phase, for (let i = 0; i <= 100; i += step).
PhaseWeights(level) ==
    IF level = "thorough" THEN <<40, 30, 30>>
    ELSE IF level = "forensic" THEN <<25, 20, 15, 25, 15>>
    ELSE IF level = "military" THEN <<20, 15, 10, 20, 15, 20>>
    ELSE <<25, 25, 25, 25>>

PhaseStep(level) ==
    IF level = "thorough" THEN 10
    ELSE IF level = "forensic" THEN 5
    ELSE IF level = "military" THEN 4
    ELSE 3

\* The number of progress events of one call of verify.  Simulated: quick
\* reports 0, 20, ..., 100, the other levels i = 0, step, ... <= 100 in
\* every phase.  Sampling: one event for each sample (quick) or for each
\* chunk checked (the other levels).
VerifierEvents(b, level, len) ==
    IF b = "simulated"
    THEN IF level = "quick" THEN 6
         ELSE Len(PhaseWeights(level)) * ((100 \div PhaseStep(level)) + 1)
    ELSE IF level = "quick" THEN QuickSamples
    ELSE Min(VerifyChunkCap(level),
             CeilDiv(len * ChunkBytes, VerifyChunkSize(level)))

\* The percentage, in hundredths, of progress event k of one call of
\* verify.  Simulated: quick reports 0, 20, ..., 100, the other levels
\* totalProgress + i * weight in every phase.  Sampling: quick reports
\* Math.floor(((i + 1) / samples) * 100), the other levels
\* Math.floor(((i + 1) / chunksToCheck) * 100).
VerifierPercentage(b, level, len, k) ==
    IF b = "simulated"
    THEN IF level = "quick" THEN 100 * 20 * (k - 1)
         ELSE LET m == (100 \div PhaseStep(level)) + 1
              IN  100 * SumTo(PhaseWeights(level), (k - 1) \div m)
                  + ((k - 1) % m) * PhaseStep(level)
                      * PhaseWeights(level)[((k - 1) \div m) + 1]
    ELSE IF level = "quick"
    THEN 100 * ((k * 100) \div QuickSamples)
    ELSE 100 * ((k * 100) \div VerifierEvents(b, level, len))

\* The events of one iteration of the verify loop: the progress at its
\* head, one event for every progress event of the verifier, and the error
\* event of the catch block when verify throws or the result is a failure.
ShownAtVerify(s, throws) ==
    IF ~ WholeInventory THEN s
    ELSE LET head == ShowProgress(s, <<OverallAtHead(VerifyWeight)>>)
         IN  IF LevelUsed \notin VerificationMethods
             THEN ShowError(head, "UnknownVerificationMethod")
             ELSE LET len == Len(content[CurrentDevice])
                      evs == ShowProgress(head,
                                [k \in 1..VerifierEvents(build, LevelUsed, len) |->
                                    Overall(VerifyWeight,
                                            Reported(LevelUsed = "quick",
                                                     VerifierPercentage(build, LevelUsed,
                                                                        len, k)))])
                  IN  IF throws THEN ShowError(evs, "VerificationFailed") ELSE evs

\* The verification loop without the throw on success = false: the
\* failure is noted and the loop goes on with the next unit.
VerifyStepContinues ==
    /\ pc = "verify"
    /\ i <= NumTargets
    /\ IF LevelUsed \notin VerificationMethods
       THEN /\ pc' = "done"
            /\ outcome' = Threw("UnknownVerificationMethod")
            /\ UNCHANGED <<i, verified>>
            /\ UNCHANGED <<vres, content>>
            /\ shown' = ShownAtVerify(shown, TRUE)
       ELSE \E r \in VerifyResults(build, LevelUsed, content[CurrentDevice]) :
               /\ vres' = r
               /\ content' = [content EXCEPT
                                ![CurrentDevice] = ContentAfterVerify(content[CurrentDevice])]
               /\ verified' = Append(verified,
                                     [device |-> CurrentDevice, success |-> r.success])
               /\ shown' = ShownAtVerify(shown, FALSE)
               /\ i' = i + 1
               /\ pc' = pc
               /\ outcome' = IF r.success THEN outcome
                             ELSE [outcome EXCEPT !.error = "VerificationFailed"]
    /\ UNCHANGED <<platform, build, host, before, client, server, ret, stop, ran, event, call, partitions, osPartitions,
                   wipePartitions, eng, sigFailed, invoked>>

\* One iteration of the verification loop: verify throws on an unknown
\* level; a result with success = false makes the caller throw.
VerifyStep ==
    /\ pc = "verify"
    /\ i <= NumTargets
    /\ IF LevelUsed \notin VerificationMethods
       THEN /\ pc' = "done"
            /\ outcome' = Threw("UnknownVerificationMethod")
            /\ UNCHANGED <<i, verified>>
            /\ UNCHANGED <<vres, content>>
            /\ shown' = ShownAtVerify(shown, TRUE)
       ELSE \E r \in VerifyResults(build, LevelUsed, content[CurrentDevice]) :
               /\ vres' = r
               /\ content' = [content EXCEPT
                                ![CurrentDevice] = ContentAfterVerify(content[CurrentDevice])]
               /\ verified' = Append(verified,
                                     [device |-> CurrentDevice, success |-> r.success])
               /\ shown' = ShownAtVerify(shown, ~ r.success)
               /\ IF r.success
                  THEN i' = i + 1 /\ UNCHANGED <<pc, outcome>>
                  ELSE /\ pc' = "done"
                       /\ outcome' = Threw("VerificationFailed")
                       /\ i' = i
    /\ UNCHANGED <<platform, build, host, before, client, server, ret, stop, ran, event, call, partitions, osPartitions,
                   wipePartitions, eng, sigFailed, invoked>>

\* The events of the return: 'Generating compliance report' with
\* progress 95 (executeAdvancedWipe), then the completion event.
ShownAtReturn(s) ==
    IF call.entry = "executeWipe" THEN ShowCompleted(s)
    ELSE IF call.entry = "executeAdvancedWipe"
    THEN ShowCompleted(ShowProgress(s, <<Number(95 * 100 * Len(wipePartitions))>>))
    ELSE s

\* The report without its list of partitions.
ReportPartitionsEmpty(wp) == <<>>

\* generateComplianceReport: partitions.map(p => p.device)
ReportPartitions(wp) == [k \in 1..Len(wp) |-> wp[k].device]

\* method.includes('7-pass') on the method names of the model.
MethodIncludes7Pass(method) == method \in {"7-pass"}

\* getComplianceStandards with method.includes('pass') for the DoD entry.
getComplianceStandardsAnyPass(method, verificationLevel) ==
    <<"NIST SP 800-88">>
    \o (IF method \in {"1-pass", "3-pass", "7-pass", "gutmann", "schneier"}
        THEN <<"DoD 5220.22-M">> ELSE <<>>)
    \o (IF verificationLevel = "military" \/ verificationLevel = "quantum"
        THEN <<"NSA CSS.5">> ELSE <<>>)

\* getComplianceStandards: the array after the three conditional pushes.
getComplianceStandards(method, verificationLevel) ==
    <<"NIST SP 800-88">>
    \o (IF MethodIncludes7Pass(method) \/ method = "gutmann" \/ method = "schneier"
        THEN <<"DoD 5220.22-M">> ELSE <<>>)
    \o (IF verificationLevel = "military" \/ verificationLevel = "quantum"
        THEN <<"NSA CSS.5">> ELSE <<>>)

\* The return value: success = true with the two counts, and for
\* executeAdvancedWipe the report (its partitions and standards).
Returned(c, wp, os) ==
    [status |-> "returned", error |-> "",
     partitionsWiped |-> IF c.entry = "wipeDevice" THEN 0 ELSE Len(wp),
     osPartitionsProtected |-> IF c.entry = "wipeDevice" THEN 0 ELSE Len(os),
     reportPartitions |-> IF c.entry = "executeAdvancedWipe"
                          THEN ReportPartitions(wp) ELSE <<>>,
     standards |-> IF c.entry = "executeAdvancedWipe"
                   THEN getComplianceStandards(c.method, c.verificationLevel)
                   ELSE <<>>]

\* generateComplianceReport(partitions, method, verificationLevel) called
\* on its own: the report for a list of the host's partitions.
generateComplianceReport(methods, levels) ==
    /\ pc = "idle"
    /\ \E m \in methods, v \in levels, k \in 0..Len(host) :
          /\ call' = Call("generateComplianceReport", m, v, "")
          /\ outcome' = [Running EXCEPT
                           !.status = "returned",
                           !.reportPartitions =
                               ReportPartitions(SubSeq(detectPartitions(platform, host, "ok"), 1, k)),
                           !.standards = getComplianceStandards(m, v)]
    /\ pc' = "done"
    /\ UNCHANGED <<platform, build, host, before, client, server, shown, ret, stop, ran, event, vres, content, partitions,
                   osPartitions, wipePartitions, i, eng, sigFailed, invoked, verified>>

\* Every unit is verified: the call returns.
ReturnStep ==
    /\ pc = "verify"
    /\ i > NumTargets
    /\ pc' = "done"
    /\ outcome' = Returned(call, wipePartitions, osPartitions)
    /\ shown' = ShownAtReturn(shown)
    /\ UNCHANGED <<platform, build, host, before, client, server, ret, stop, ran, event, vres, content, call, partitions, osPartitions,
                   wipePartitions, i, eng, sigFailed, invoked, verified>>

\* ------------------------------------- the detector called on its own
\* isSafeToWipe(devicePath, osPartitions) on a path and a list of up to
\* MaxUnits protected descriptors.
callIsSafeToWipe ==
    /\ pc = "idle"
    /\ \E id \in Range(LinuxDevices) \cup {TestFile, ""} :
       \E n \in 0..MaxUnits :
       \E os \in [1..n -> {Descriptor(d, "/", TRUE) : d \in Range(LinuxDevices)}] :
          /\ call' = Call("isSafeToWipe", "", "", id)
          /\ ret' = [fn |-> "isSafeToWipe", devicePath |-> id, osPartitions |-> os,
                     value |-> isSafeToWipe(id, os)]
    /\ pc' = "done"
    /\ UNCHANGED <<platform, build, host, before, client, server, shown, stop, ran, event, vres, content, partitions,
                   osPartitions, wipePartitions, i, eng, outcome, sigFailed, invoked,
                   verified>>

\* this.osSignatures, in the order of its keys.
osSignatures ==
    << [fsType |-> "ntfs",  fsSignature |-> <<235, 82, 144, 78, 84, 70, 83>>],
       [fsType |-> "fat32", fsSignature |-> <<235, 88, 144, 77, 83, 68, 79, 83, 53, 46, 48>>],
       [fsType |-> "ext4",  fsSignature |-> <<83, 239>>],
       [fsType |-> "ext3",  fsSignature |-> <<83, 239>>],
       [fsType |-> "ext2",  fsSignature |-> <<83, 239>>],
       [fsType |-> "btrfs", fsSignature |-> <<95, 66, 72, 114, 83, 70, 72, 33>>],
       [fsType |-> "xfs",   fsSignature |-> <<88, 70, 83, 66>>],
       [fsType |-> "hfs+",  fsSignature |-> <<72, 43, 0, 4, 72, 70, 83, 0>>],
       [fsType |-> "apfs",  fsSignature |-> <<65, 80, 70, 83>>],
       [fsType |-> "zfs",   fsSignature |-> <<90, 70, 83, 0>>],
       [fsType |-> "ufs",   fsSignature |-> <<84, 25, 1, 0>>] >>

\* The leading bytes of the 1024-byte signature buffer the model keeps: as
\* many as the longest entry of osSignatures.
SignatureBytes == 11

\* Buffer.alloc(1024) with the bytes b copied to its start.
SignatureBuffer(b) == [k \in 1..SignatureBytes |-> IF k <= Len(b) THEN b[k] ELSE 0]

\* readSignature: the first bytes of the device, or the zero buffer of its
\* catch block when the device cannot be opened or read.
readSignature(bytes, readable) ==
    IF readable THEN SignatureBuffer(bytes) ELSE SignatureBuffer(<<>>)

\* identifyFilesystem: the first entry of osSignatures whose bytes are the
\* leading bytes of the signature; 'unknown' if there is none.
identifyFilesystem(signature) ==
    LET match == {k \in 1..Len(osSignatures) :
                    /\ Len(signature) >= Len(osSignatures[k].fsSignature)
                    /\ \A j \in 1..Len(osSignatures[k].fsSignature) :
                          signature[j] = osSignatures[k].fsSignature[j]}
    IN  IF match = {} THEN "unknown"
        ELSE osSignatures[CHOOSE k \in match : \A m \in match : k <= m].fsType

\* The filesystems isOSPartition names as likely to host an OS.
OSFilesystems == {"ntfs", "ext4", "ext3", "apfs", "hfs+"}

\* The leading bytes of the units isOSPartition is called on: an NTFS boot
\* sector, the ext magic, an APFS and an XFS magic, and zeros.
UnitSignatures ==
    {osSignatures[k].fsSignature : k \in {1, 3, 7, 9}} \cup {<<>>}

\* isOSPartition(partition) on a descriptor of the inventory or of a unit
\* with its mount point.  The unit has leading bytes b, readable or not,
\* and holds the directories of this.osIndicators or not.
callIsOSPartition ==
    /\ pc = "idle"
    /\ \E partition \in
             UNION {Range(detectPartitions(platform, host, probe)) :
                      probe \in Probes(platform)}
             \cup {Descriptor(host[k].device, host[k].mountpoint, FALSE) :
                      k \in 1..Len(host)} :
       \E b \in UnitSignatures, readable \in BOOLEAN, markers \in BOOLEAN :
          /\ call' = Call("isOSPartition", "", "", partition.device)
          /\ ret' = [fn |-> "isOSPartition", partition |-> partition,
                     filesystem |-> identifyFilesystem(readSignature(b, readable)),
                     markers |-> markers,
                     value |-> isOSPartition(platform, partition, ~readable)]
    /\ pc' = "done"
    /\ UNCHANGED <<platform, build, host, before, client, server, shown, stop, ran, event, vres, content, partitions,
                   osPartitions, wipePartitions, i, eng, outcome, sigFailed, invoked,
                   verified>>

\* detectPartitions with an error of a probe leaving it: neither the
\* probe nor detectPartitions catches the failure of the last fallback.
DetectOutcomeRaises(p, h, probe) ==
    [raised |-> probe = "none", value |-> detectPartitions(p, h, probe)]

\* What detectPartitions hands to its caller: every probe catches the
\* errors of its command and of its fallback, and detectPartitions catches
\* whatever else a probe throws, so a list is returned in every case.
DetectOutcome(p, h, probe) ==
    [raised |-> FALSE, value |-> detectPartitions(p, h, probe)]

\* detectPartitions() called on its own.
callDetectPartitions ==
    /\ pc = "idle"
    /\ \E probe \in Probes(platform) :
          /\ call' = Call("detectPartitions", "", "", "")
          /\ ret' = [fn |-> "detectPartitions", probe |-> probe,
                     raised |-> DetectOutcome(platform, host, probe).raised,
                     value |-> DetectOutcome(platform, host, probe).value]
    /\ pc' = "done"
    /\ UNCHANGED <<platform, build, host, before, client, server, shown, stop, ran, event, vres, content, partitions,
                   osPartitions, wipePartitions, i, eng, outcome, sigFailed, invoked,
                   verified>>

\* getAvailableMethods of the engine and of the verifier: Object.keys of
\* the two tables.
getAvailableMethods ==
    <<"1-pass", "3-pass", "7-pass", "gutmann", "schneier", "pfitzner">>
getAvailableVerificationMethods ==
    <<"quick", "thorough", "forensic", "military", "quantum">>

\* getSystemInfo with dataPartitions = partitions.length.
SystemInfoCountsAll(ps, os) ==
    [totalPartitions |-> Len(ps), osPartitions |-> Len(os),
     dataPartitions |-> Len(ps),
     wipeMethods |-> getAvailableMethods,
     verificationMethods |-> getAvailableVerificationMethods]

\* The object getSystemInfo returns for the inventory ps and its OS
\* partitions os.
SystemInfo(ps, os) ==
    [totalPartitions |-> Len(ps), osPartitions |-> Len(os),
     dataPartitions |-> Len(ps) - Len(os),
     wipeMethods |-> getAvailableMethods,
     verificationMethods |-> getAvailableVerificationMethods]

\* getSystemInfo()
getSystemInfo ==
    /\ pc = "idle"
    /\ \E probe \in Probes(platform) :
          LET ps == detectPartitions(platform, host, probe)
          IN  \E failed \in SUBSET Devices(ps) :
                 LET os == identifyOSPartitions(platform, ps, failed)
                 IN  /\ call' = Call("getSystemInfo", "", "", "")
                     /\ partitions' = MarkOS(platform, ps, failed)
                     /\ osPartitions' = os
                     /\ sigFailed' = failed
                     /\ ret' = [fn |-> "getSystemInfo", probe |-> probe,
                                value |-> SystemInfo(ps, os)]
    /\ pc' = "done"
    /\ UNCHANGED <<platform, build, host, before, client, server, shown, stop, ran, event, vres, content,
                   wipePartitions, i, eng, outcome, invoked, verified>>

\* -------------------------------------------------- specifications
Steps ==
    \/ DetectStep
    \/ IdentifyStep
    \/ ExecuteStep
    \/ BeginPass
    \/ WriteChunk
    \/ WriteFails
    \/ EndPass
    \/ WipeLoopExit
    \/ VerifyStep
    \/ ReturnStep

\* The runs checked for the orchestrator: every platform and build, every
\* method but the two with tens of passes, and an unknown method and level.
RunMethods == {"1-pass", "3-pass", "7-pass", "rot13"}
\* "" is a call of executeAdvancedWipe without its verificationLevel argument.
RunLevels == {"thorough", "quantum", "deep", ""}
RunMounts == {"/", "/home"}

Init == InitOn(Platforms, Builds, RunMounts, 0..MaxChunks)

Next ==
    \/ executeWipe(RunMethods)
    \/ executeAdvancedWipe(RunMethods, RunLevels)
    \/ wipeDevice(RunMethods)
    \/ Steps

Spec == Init /\ [][Next]_vars

\* The runs of one platform under the methods of one and of three passes
\* and an unknown one, every run going on whenever one of its steps can be
\* taken: a pending await of an async function is resumed once the promise
\* it waits for has settled.
LiveMethods == {"1-pass", "3-pass", "rot13"}

InitLive == InitOn({"linux"}, Builds, RunMounts, 0..MaxChunks)

NextLive ==
    \/ executeWipe(LiveMethods)
    \/ executeAdvancedWipe(LiveMethods, RunLevels)
    \/ wipeDevice(LiveMethods)
    \/ Steps

SpecLive == InitLive /\ [][NextLive]_vars /\ WF_vars(Steps)

\* The engine under every recognised method, on the hosts of one platform.
InitEngine == InitOn({"linux"}, Builds, RunMounts, 0..MaxChunks)

NextEngine ==
    \/ executeAdvancedWipe(Methods, {"thorough"})
    \/ wipeDevice(Methods)
    \/ Steps

SpecEngine == InitEngine /\ [][NextEngine]_vars

\* The overwrite engine called on its own.
NextExecute ==
    \/ execute(RunMethods)
    \/ ExecuteStep
    \/ BeginPass
    \/ WriteChunk
    \/ WriteFails
    \/ EndPass
    \/ WipeLoopExit

SpecExecute == InitEngine /\ [][NextExecute]_vars

\* The orchestrated runs with a caller that asks for a stop.
NextStop ==
    \/ executeWipe({"3-pass"})
    \/ executeAdvancedWipe({"3-pass"}, {"thorough"})
    \/ wipeDevice({"3-pass"})
    \/ Steps
    \/ requestStop

SpecStop == InitEngine /\ [][NextStop]_vars

\* The compliance report on its own: every recognised method and level.
NextReport == generateComplianceReport(Methods, VerificationMethods)

SpecReport == Init /\ [][NextReport]_vars

\* The verifier on its own: one file of every content up to MaxChunks
\* chunks, every level and an unknown one.
VerifierFills == {"orig", "0x00", "0xFF", "ramp", "random"}

InitVerifier ==
    /\ platform = "linux"
    /\ build \in Builds
    /\ host = <<>>
    /\ \E n \in 0..MaxChunks : \E c \in [1..n -> VerifierFills] :
          content = [d \in {TestFile} |-> c]
    /\ before = content
    /\ call = NoCall
    /\ pc = "idle"
    /\ partitions = <<>>
    /\ osPartitions = <<>>
    /\ wipePartitions = <<>>
    /\ i = 0
    /\ eng = Idle
    /\ outcome = Running
    /\ sigFailed = {}
    /\ invoked = <<>>
    /\ verified = <<>>
    /\ ran = <<>>
    /\ event = NoEvent
    /\ vres = NoResult
    /\ ret = NoReturn
    /\ stop = NoStop
    /\ shown = NoneShown
    /\ client = NoClient
    /\ server = ServerStart

NextVerifier == verify(VerificationMethods \cup {"deep"})

SpecVerifier == InitVerifier /\ [][NextVerifier]_vars

\* The detector's functions and getSystemInfo, each called on its own, on
\* every platform.
InitDetector == InitOn(Platforms, {"simulated"}, LinuxMounts, {0})

NextDetector ==
    \/ callIsSafeToWipe
    \/ callIsOSPartition
    \/ callDetectPartitions
    \/ getSystemInfo

SpecDetector == InitDetector /\ [][NextDetector]_vars

\* ------------------------------------------- the remote client's jobs
\* The values a TrueWipe progress event hands to the client's callback.
TrueWipeProgress == {0, 50}

\* The client's two versions: the simulated wipe (setInterval) and the
\* wipe through TrueWipe (executeWipeWithTrueWipe).
ClientBuilds == {"simulated", "async"}

\* socket.on('wipe_command') up to its await: currentJobId = data.jobId,
\* the first in-progress update, and the wipe is started.
wipe_command ==
    /\ \E j \in Jobs :
         /\ client.wipe[j].pc = "none"
         /\ client' = Emit([client EXCEPT !.currentJobId = j,
                                           !.wipe[j].pc = "wiping"],
                           j, "in-progress", 0)
    /\ UNCHANGED <<platform, build, host, content, before, call, pc,
                   partitions, osPartitions, wipePartitions, i, eng,
                   outcome, sigFailed, invoked, verified, ran, event, vres,
                   ret, stop, shown, server>>

\* One tick of the simulated wipe's interval: progress grows by 1..5; at
\* 100 the interval is cleared and the promise is about to resolve.
tick ==
    /\ build = "simulated"
    /\ \E j \in Jobs, d \in 1..5 :
         /\ client.wipe[j].pc = "wiping"
         /\ LET p == IF client.wipe[j].progress + d >= 100
                     THEN 100 ELSE client.wipe[j].progress + d
            IN  client' = Emit([client EXCEPT
                                  !.wipe[j].progress = p,
                                  !.wipe[j].pc = IF p = 100 THEN "resolved"
                                                 ELSE "wiping"],
                               j, "in-progress", p)
    /\ UNCHANGED <<platform, build, host, content, before, call, pc,
                   partitions, osPartitions, wipePartitions, i, eng,
                   outcome, sigFailed, invoked, verified, ran, event, vres,
                   ret, stop, shown, server>>

\* The progress callback of executeWipeWithTrueWipe: status.progress is
\* defined and currentJobId is set.
progressReport ==
    /\ build # "simulated"
    /\ \E j \in Jobs, p \in TrueWipeProgress :
         /\ client.wipe[j].pc = "wiping"
         /\ client' = Emit(client, j, "in-progress", p)
    /\ UNCHANGED <<platform, build, host, content, before, call, pc,
                   partitions, osPartitions, wipePartitions, i, eng,
                   outcome, sigFailed, invoked, verified, ran, event, vres,
                   ret, stop, shown, server>>

\* The wipe through TrueWipe returns or throws.
settle ==
    /\ build # "simulated"
    /\ \E j \in Jobs, r \in {"resolved", "rejected"} :
         /\ client.wipe[j].pc = "wiping"
         /\ client' = [client EXCEPT !.wipe[j].pc = r]
    /\ UNCHANGED <<platform, build, host, content, before, call, pc,
                   partitions, osPartitions, wipePartitions, i, eng,
                   outcome, sigFailed, invoked, verified, ran, event, vres,
                   ret, stop, shown, server>>

\* The handler after its await: the terminal update, 'completed' with
\* progress 100 or, from the catch, 'failed' with progress 0.
terminalReport ==
    /\ \E j \in Jobs :
         /\ client.wipe[j].pc \in {"resolved", "rejected"}
         /\ client' = IF client.wipe[j].pc = "resolved"
                      THEN Emit([client EXCEPT !.wipe[j].pc = "reported"],
                                j, "completed", 100)
                      ELSE Emit([client EXCEPT !.wipe[j].pc = "reported"],
                                j, "failed", 0)
    /\ UNCHANGED <<platform, build, host, content, before, call, pc,
                   partitions, osPartitions, wipePartitions, i, eng,
                   outcome, sigFailed, invoked, verified, ran, event, vres,
                   ret, stop, shown, server>>

\* The client and the admin panel after start, no wipe called locally.
InitRemote(builds) ==
    /\ platform = "linux"
    /\ build \in builds
    /\ host = <<>>
    /\ content = [d \in {TestFile} |-> Original(0)]
    /\ before = content
    /\ call = NoCall
    /\ pc = "idle"
    /\ partitions = <<>>
    /\ osPartitions = <<>>
    /\ wipePartitions = <<>>
    /\ i = 0
    /\ eng = Idle
    /\ outcome = Running
    /\ sigFailed = {}
    /\ invoked = <<>>
    /\ verified = <<>>
    /\ ran = <<>>
    /\ event = NoEvent
    /\ vres = NoResult
    /\ ret = NoReturn
    /\ stop = NoStop
    /\ shown = NoneShown
    /\ client = NoClient
    /\ server = ServerStart

InitClient == InitRemote(ClientBuilds)

NextClient ==
    \/ wipe_command
    \/ tick
    \/ progressReport
    \/ settle
    \/ terminalReport

SpecClient == InitClient /\ [][NextClient]_vars

\* ------------------------------------------- the admin panel's jobs
\* The job ids a job_status_update can carry: the jobs and one id that
\* has no row.
UpdateJobIds == Jobs \cup {MaxJobs + 1}

\* The columns the handler's UPDATE sets: status, and progress and result
\* when the message has them.
SetColumns(data) ==
    {"status"}
      \cup (IF data.progress # "undefined" THEN {"progress"} ELSE {})
      \cup (IF data.result # "undefined" THEN {"result"} ELSE {})

\* socket.on('job_status_update'): the query is built and handed to
\* db.run.
job_status_update ==
    /\ Len(server.queue) < MaxQueries
    /\ \E j \in UpdateJobIds,
          st \in {"in-progress", "completed", "failed"},
          p \in {"undefined", "0", "100"},
          r \in {"undefined", "result"} :
         server' = [server EXCEPT !.queue =
                       Append(@, [jobId |-> j, status |-> st,
                                  progress |-> p, result |-> r])]
    /\ UNCHANGED <<platform, build, host, content, before, call, pc,
                   partitions, osPartitions, wipePartitions, i, eng,
                   outcome, sigFailed, invoked, verified, ran, event, vres,
                   ret, stop, shown, client>>

\* sqlite runs the query and calls back: an UPDATE that names a column
\* the table does not have fails and the callback returns on err; else the
\* row with that id, if there is one, is updated and job_status_updated
\* is broadcast.
dbRun ==
    /\ server.queue # <<>>
    /\ LET data == Head(server.queue)
           err == ~ (SetColumns(data) \subseteq JobColumns)
           row == [status |-> data.status,
                   result |-> IF data.result # "undefined" THEN data.result
                              ELSE IF data.jobId \in Jobs
                                   THEN server.jobs[data.jobId].result
                                   ELSE "null"]
       IN  server' =
             [server EXCEPT
                !.queue = Tail(@),
                !.jobs = IF ~ err /\ data.jobId \in Jobs
                         THEN [@ EXCEPT ![data.jobId] = row]
                         ELSE @,
                !.last = [jobId |-> data.jobId, status |-> data.status,
                          progress |-> data.progress,
                          err |-> err, broadcast |-> ~ err]]
    /\ UNCHANGED <<platform, build, host, content, before, call, pc,
                   partitions, osPartitions, wipePartitions, i, eng,
                   outcome, sigFailed, invoked, verified, ran, event, vres,
                   ret, stop, shown, client>>

NextServer ==
    \/ job_status_update
    \/ dbRun

InitServer == InitRemote({"async"})

SpecServer == InitServer /\ [][NextServer]_vars

\* ------------------------------------------------------- properties
\* The call went through classification.
Classified == pc \in {"wipe", "pass", "verify", "done"}
VerifiedDevices == {verified[k].device : k \in 1..Len(verified)}

\* C1: in every run of executeWipe, executeAdvancedWipe or wipeDevice the
\* overwrite engine is never invoked on a unit the classifier put into
\* osPartitions in that run and the content of such a unit is what it was
\* before the run; wipeDevice on such a unit throws the 'protected' error
\* with nothing written.
ProtectedUnitsUntouched ==
    /\ \A d \in Devices(osPartitions) :
          /\ d \notin Range(invoked)
          /\ content[d] = before[d]
    /\ (call.entry = "wipeDevice" /\ Classified
          /\ call.devicePath \in Devices(osPartitions))
       => (pc = "done" /\ outcome = Threw("Protected")
             /\ invoked = <<>> /\ content = before)

\* A run over an inventory with a protected unit returned after it wrote
\* to another unit.
ProtectedUnitSurvivesRun ==
    /\ pc = "done"
    /\ outcome.status = "returned"
    /\ Len(osPartitions) > 0
    /\ \E d \in Range(invoked) : content[d] # before[d]

\* C2: a unit whose descriptor has isOS = true (set by the classifier or by
\* the fallback enumeration) is not among the units to wipe and is not
\* handed to the overwrite engine.
FlaggedOSNeverWipeable ==
    \A k \in 1..Len(partitions) :
        partitions[k].isOS =>
            /\ partitions[k].device \notin Devices(wipePartitions)
            /\ partitions[k].device \notin Range(invoked)

\* C3: a unit whose signature read failed with an I/O error is classified
\* protected and is never written.
SignatureErrorFailsClosed ==
    \A d \in sigFailed :
        /\ d \in Devices(osPartitions)
        /\ d \notin Range(invoked)
        /\ content[d] = before[d]

\* C4: when executeWipe or executeAdvancedWipe returns, the units reported
\* as wiped and the units classified protected are disjoint, together they
\* are the enumerated units, and partitionsWiped + osPartitionsProtected is
\* the number of enumerated units.
WipedAndProtectedPartition ==
    (outcome.status = "returned" /\ WholeInventory) =>
        LET wiped == Devices(wipePartitions)
            protected == Devices(osPartitions)
        IN  /\ wiped \cap protected = {}
            /\ wiped \cup protected = Devices(partitions)
            /\ outcome.partitionsWiped = Cardinality(wiped)
            /\ outcome.osPartitionsProtected = Cardinality(protected)
            /\ outcome.partitionsWiped + outcome.osPartitionsProtected = Len(partitions)
            /\ call.entry = "executeAdvancedWipe" =>
                   Range(outcome.reportPartitions) = wiped

\* executeAdvancedWipe returned on two units, one protected, one wiped.
OneWipedOneProtected ==
    /\ outcome.status = "returned"
    /\ call.entry = "executeAdvancedWipe"
    /\ Len(partitions) = 2
    /\ outcome.partitionsWiped = 1
    /\ outcome.osPartitionsProtected = 1
    /\ Len(outcome.reportPartitions) = 1

UnknownLevelBeforeAnyWrite ==
    outcome.error = "UnknownVerificationMethod" => content = before

\* C7 as stated: when every enumerated unit is classified protected the
\* run returns a success with no unit wiped, and writes nothing.
AllProtectedIsSuccess ==
    (pc = "done" /\ WholeInventory /\ Len(partitions) > 0
        /\ Devices(partitions) \subseteq Devices(osPartitions)) =>
        (outcome.status = "returned" /\ outcome.partitionsWiped = 0
            /\ content = before)

\* C7: when every enumerated unit is classified protected the run writes
\* nothing, calls neither engine nor verifier and ends with the error 'No
\* partitions available for wiping (all protected as OS partitions)'.
AllProtectedIsRejected ==
    (Classified /\ WholeInventory
        /\ Devices(partitions) \subseteq Devices(osPartitions)) =>
        /\ pc = "done"
        /\ outcome = Threw("NoPartitions")
        /\ content = before
        /\ invoked = <<>>
        /\ verified = <<>>

\* A run on a host with units, all of them classified protected, ended.
AllProtectedRunEnded ==
    /\ pc = "done"
    /\ WholeInventory
    /\ Len(partitions) = MaxUnits
    /\ Len(osPartitions) = Len(partitions)
    /\ outcome.status = "threw"

\* C8 as stated: after a write failure on unit i every wipeable unit
\* after i is still overwritten and verified.
WriteFailureSparesLaterUnits ==
    (pc = "done" /\ WholeInventory /\ outcome.error = "WriteFailure") =>
        \A k \in (i + 1)..Len(wipePartitions) :
            /\ wipePartitions[k].device \in Range(invoked)
            /\ wipePartitions[k].device \in VerifiedDevices

\* C8: a write failure on unit i aborts the whole run: the call throws,
\* unit i is the last unit the engine was called on, no unit after i is
\* overwritten and no unit at all is verified.
WriteFailureAbortsRun ==
    outcome.error = "WriteFailure" =>
        /\ pc = "done"
        /\ outcome.status = "threw"
        /\ verified = <<>>
        /\ Len(invoked) = i
        /\ invoked[i] = CurrentDevice
        /\ WholeInventory =>
              \A k \in (i + 1)..Len(wipePartitions) :
                  /\ wipePartitions[k].device \notin Range(invoked)
                  /\ content[wipePartitions[k].device]
                        = before[wipePartitions[k].device]

\* A write failed on a unit that is not the last wipeable unit.
WriteFailedBeforeLastUnit ==
    /\ outcome.error = "WriteFailure"
    /\ WholeInventory
    /\ i < Len(wipePartitions)
    /\ Len(before[wipePartitions[i + 1].device]) > 0

\* C9 as stated: after verification of unit i returned success = false
\* every wiped unit after i is still verified.
VerificationFailureSparesLaterUnits ==
    (pc = "done" /\ WholeInventory /\ outcome.error = "VerificationFailed") =>
        \A k \in (i + 1)..Len(wipePartitions) :
            wipePartitions[k].device \in VerifiedDevices

\* C9: when verification of unit i returns success = false the whole run
\* is aborted: the call throws the verification-failed error for unit i,
\* the units before i verified with success, and no unit after i is
\* verified.
VerificationFailureAbortsRun ==
    outcome.error = "VerificationFailed" =>
        /\ pc = "done"
        /\ outcome.status = "threw"
        /\ Len(verified) = i
        /\ verified[i] = [device |-> CurrentDevice, success |-> FALSE]
        /\ \A k \in 1..(i - 1) : verified[k].success
        /\ WholeInventory =>
              /\ \A k \in 1..i : verified[k].device = wipePartitions[k].device
              /\ \A k \in (i + 1)..Len(wipePartitions) :
                    wipePartitions[k].device \notin VerifiedDevices

\* Verification failed on a unit that is not the last wiped unit.
VerificationFailedBeforeLastUnit ==
    /\ outcome.error = "VerificationFailed"
    /\ WholeInventory
    /\ i < Len(wipePartitions)

\* C10: the step in which a chunk write fails writes nothing and leaves
\* the chunks written so far as they are; from then on no chunk and no
\* pass is written to the unit, and the call has thrown, so that no
\* result with success = true is returned for the run.
ChunkFailureStopsUnit ==
    [][/\ (outcome.error # "WriteFailure" /\ outcome'.error = "WriteFailure") =>
             (content' = content /\ eng' = eng)
       /\ outcome.error = "WriteFailure" =>
             /\ content' = content
             /\ eng' = eng
             /\ invoked' = invoked
             /\ outcome' = outcome
             /\ outcome.status = "threw"
             /\ pc = "done" /\ pc' = "done"]_vars

\* A chunk write failed in the second or a later pass, after some but not
\* all chunks of that pass were written.
ChunkFailedMidPass ==
    /\ outcome.error = "WriteFailure"
    /\ eng.pass > 1
    /\ 0 < eng.chunk
    /\ eng.chunk < eng.size
    /\ Len(content[CurrentDevice]) = eng.chunk

\* The unit identifiers a result names: those of report.partitions.  No
\* other field of a result or of a report holds a unit identifier.
ReportedUnits(o) == Range(o.reportPartitions)
\* A result that carries a compliance report.
HasReport(o) == o.status = "returned" /\ o.standards # <<>>

NoLevelMeansThorough ==
    (call.entry \in {"executeWipe", "executeAdvancedWipe", "wipeDevice"}
        /\ call.verificationLevel = "") =>
        /\ (pc = "verify" /\ i <= NumTargets) => LevelUsed = "thorough"
        /\ outcome.error # "UnknownVerificationMethod"

\* generateRandomBuffer / crypto.randomBytes: a fill of random bytes, fresh
\* for every chunk or one 1024-byte buffer repeated.
FillKind(f) == IF f \in {"random", "random1k"} THEN "random" ELSE f

\* Call k of the engine ran to its end.
Completed(k) == k < Len(ran) \/ (eng = Idle /\ outcome.error # "WriteFailure")

PfitznerCountFixedForRun ==
    call.method = "pfitzner" =>
        /\ \A k \in 1..Len(ran) : ran[k].total \in 10..50
        /\ \A j, k \in 1..Len(ran) : ran[j].total = ran[k].total
        /\ (event.kind = "pass" /\ Len(ran) > 0) => event.totalPasses = ran[1].total

\* C13: the pass count N of pfitzner is in 10..50 and is fixed for the
\* wipe of one unit: it does not change once drawn, exactly N passes are
\* run on the unit and every progress event of the unit's wipe reports
\* totalPasses = N; each unit of a run draws its own N.
PfitznerCountFixedPerUnit ==
    [][call.method = "pfitzner" =>
          /\ \A k \in 1..Len(ran) :
                /\ ran[k].total \in 10..50
                /\ Len(ran'[k].fills) <= ran[k].total
                /\ ran'[k].total = ran[k].total
          /\ Len(ran') \in {Len(ran), Len(ran) + 1}
          /\ \A k \in 1..Len(ran') :
                /\ ran'[k].total \in 10..50
                /\ (k < Len(ran') \/ (eng' = Idle /\ outcome'.error # "WriteFailure"))
                      => Len(ran'[k].fills) = ran'[k].total
          /\ eng'.pass > 0 => eng'.total = ran'[Len(ran')].total
          /\ event' # event =>
                (event'.kind = "pass" /\ event'.totalPasses = ran'[Len(ran')].total)]_vars

\* A pfitzner run returned after it wiped two units with different pass
\* counts, the least and the greatest.
PfitznerUnitsDrawOwnCount ==
    /\ call.method = "pfitzner"
    /\ outcome.status = "returned"
    /\ Len(ran) = 2
    /\ ran[1].total = 10
    /\ ran[2].total = 50
    /\ Len(ran[1].fills) = 10
    /\ Len(ran[2].fills) = 50
    /\ event.totalPasses = 50

\* The content the direct call verified, and whether verify returned.
VerifiedContent == content[call.devicePath]
VerifyReturned == call.entry = "verify" /\ vres.returned

\* C16: for every level, verify returns success = true exactly when every
\* threshold of the level is met by what was measured (clean ratio > 0.90
\* quick, > 0.95 thorough, > 0.98 and mean entropy > 0.80 forensic, > 0.99
\* and mean diversity > 0.70 military, > 0.995 and mean of 0.6 entropy +
\* 0.4 diversity > 0.90 quantum), and the confidence returned is the
\* measured ratio clean samples / samples read.  The simulated verifier
\* measures nothing and returns success with a constant.
SuccessIffThresholdsMet ==
    VerifyReturned =>
        LET v == call.verificationLevel
            t == vres.total
            RatioAbove(thousandths) == t # 0 /\ 1000 * vres.clean > thousandths * t
            met == IF v = "quick" THEN RatioAbove(900)
                   ELSE IF v = "thorough" THEN RatioAbove(950)
                   ELSE IF v = "forensic"
                   THEN RatioAbove(980) /\ vres.entropy > 800 * t
                   ELSE IF v = "military"
                   THEN RatioAbove(990) /\ vres.diversity > 700 * t
                   ELSE /\ RatioAbove(995)
                        /\ (6 * vres.entropy) + (4 * vres.diversity) > 9000 * t
        IN  /\ vres.success <=> met
            /\ vres.confidence = Ratio(vres.clean, vres.total)

\* A non-empty unit every chunk of which holds fill f.
FilledWith(c, f) == Len(c) > 0 /\ \A k \in 1..Len(c) : c[k] = f

\* C17: verify at level thorough on a unit holding the bytes 0, 1, ..., 255,
\* 0, 1, ... returns success = false.  The code finds 4 zero bytes among
\* the first 1024 of every chunk it reads, a ratio below 0.1, and counts
\* the chunk as clean.
ThoroughRejectsRamp ==
    (/\ VerifyReturned
     /\ call.verificationLevel = "thorough"
     /\ FilledWith(VerifiedContent, "ramp"))
        => ~vres.success

\* C18: verify at level thorough on a non-empty unit of zero bytes returns
\* success = true and a confidence of exactly 1.  The simulated verifier
\* returns 0.99.
ThoroughAcceptsZeros ==
    (/\ VerifyReturned
     /\ call.verificationLevel = "thorough"
     /\ FilledWith(VerifiedContent, "0x00"))
        => /\ vres.success
           /\ vres.confidence.den # 0
           /\ vres.confidence.num = vres.confidence.den

\* C19: the confidence verify returns is a number between 0 and 1, for
\* every unit, an empty one included, and every level.  On an empty unit
\* the levels other than quick return 0 / 0.
ConfidenceInUnitInterval ==
    VerifyReturned =>
        /\ vres.confidence.den # 0
        /\ vres.confidence.num <= vres.confidence.den

\* C20: verification never writes to the unit: whatever the level and
\* whether verify returned success, returned failure or threw, the content
\* of every unit is what it was before the call.
VerifyLeavesContent ==
    call.entry = "verify" => content = before

\* verify returned success = false on a unit that holds data.
VerifyFailedOnFullUnit ==
    /\ VerifyReturned
    /\ ~vres.success
    /\ Len(VerifiedContent) = MaxChunks
    /\ build # "simulated"

\* C21: isSafeToWipe(id, protectedSet) returns false exactly when some
\* member of protectedSet has the device identifier id; on the empty set
\* it returns true.
SafeIffNotProtected ==
    ret.fn = "isSafeToWipe" =>
        /\ ret.value = FALSE <=> ret.devicePath \in Devices(ret.osPartitions)
        /\ ret.osPartitions = <<>> => ret.value = TRUE

\* isSafeToWipe refused a path found at the second place of the set.
ProtectedPathRefused ==
    /\ ret.fn = "isSafeToWipe"
    /\ Len(ret.osPartitions) = 2
    /\ ret.osPartitions[1].device # ret.devicePath
    /\ ret.osPartitions[2].device = ret.devicePath
    /\ ret.value = FALSE

\* C22: a unit is classified protected exactly when its mount point matches
\* the OS-root convention of the platform, or its signature is that of an
\* OS-hosting filesystem and the directory markers of an OS are present;
\* every other unit is wipeable.  (Which rule is consulted first does not
\* show in the value returned.)  The code returns false whenever the mount
\* point does not match.
ClassifiedByMountOrSignature ==
    ret.fn = "isOSPartition" =>
        (ret.value <=>
            \/ IsOSMountPoint(platform, ret.partition)
            \/ ret.filesystem \in OSFilesystems /\ ret.markers)

\* C23: whichever probe of the platform fails, detectPartitions does not
\* raise: it returns a list, possibly shorter or empty, of units of the host.
EnumerationNeverRaises ==
    ret.fn = "detectPartitions" =>
        /\ ~ ret.raised
        /\ Len(ret.value) <= Len(host)
        /\ Devices(ret.value) \subseteq Devices(host)

\* Both probes of a host with units failed and the empty list came back.
EnumerationDegradedToEmpty ==
    /\ ret.fn = "detectPartitions"
    /\ ret.probe = "none"
    /\ Len(host) > 0
    /\ ~ ret.raised
    /\ ret.value = <<>>

\* C25: for every inventory, an empty one and one obtained after
\* enumeration failures included, getSystemInfo returns totalPartitions,
\* osPartitions, dataPartitions, wipeMethods and verificationMethods;
\* wipeMethods lists the six method names, verificationMethods the five
\* levels, and dataPartitions = totalPartitions - osPartitions >= 0.
SystemInfoWellFormed ==
    ret.fn = "getSystemInfo" =>
        LET v == ret.value
        IN  /\ DOMAIN v = {"totalPartitions", "osPartitions", "dataPartitions",
                           "wipeMethods", "verificationMethods"}
            /\ Len(v.wipeMethods) = 6
            /\ Range(v.wipeMethods) = Methods
            /\ Len(v.verificationMethods) = 5
            /\ Range(v.verificationMethods) = VerificationMethods
            /\ v.totalPartitions = Len(partitions)
            /\ v.osPartitions <= v.totalPartitions
            /\ v.dataPartitions + v.osPartitions = v.totalPartitions

\* getSystemInfo on the inventory of the /proc/partitions fallback.
SystemInfoAfterFallback ==
    /\ ret.fn = "getSystemInfo"
    /\ ret.probe = "fallback"
    /\ Len(host) > 0
    /\ ret.value.totalPartitions = Len(host)
    /\ ret.value.dataPartitions = Len(host)

\* The units the classifier marks protected on this host.
ProtectedUnits ==
    Devices(identifyOSPartitions(platform, detectPartitions(platform, host, "ok"), {}))

\* C26: SecureOverwriteEngine.execute called directly on a unit the
\* classifier marks protected re-checks isSafeToWipe before opening the
\* unit: the method is not run and nothing is written.  execute checks the
\* method name and the path only.
EngineRefusesProtectedUnit ==
    (call.entry = "execute" /\ call.devicePath \in ProtectedUnits) =>
        content[call.devicePath] = before[call.devicePath]

\* The chunks written by the engine call k of the run, over all its passes.
ChunksWritten(k) == SumTo(ran[k].chunks, Len(ran[k].chunks))

\* C24: a stop asked for during the second pass of a non-empty unit is honoured
\* between chunks and between passes: at most the chunk in flight is still
\* written, no further pass and no later unit is started, the chunks
\* written stay below capacity times the number of passes, and the unit
\* ends as aborted, not as wiped.  The code has no stop signal: the pass
\* goes on, the next pass begins and the run returns success.
StopHonoured ==
    (stop.asked /\ stop.pass = 2 /\ Len(before[invoked[stop.run]]) > 0) =>
        /\ Len(ran) = stop.run
        /\ Len(ran[stop.run].fills) = 2
        /\ ran[stop.run].chunks[2] <= stop.chunk + 1
        /\ ChunksWritten(stop.run) < Len(before[invoked[stop.run]]) * ran[stop.run].total
        /\ pc = "done" => outcome.status # "returned"

\* Every enumerated unit has been classified: the protected set holds
\* exactly the units of the inventory isOSPartition accepts.
WholeInventoryClassified ==
    /\ pc \notin {"idle", "detect", "identify"}
    /\ Devices(osPartitions) =
          {partitions[k].device : k \in
              {j \in 1..Len(partitions) :
                  isOSPartition(platform, partitions[j], partitions[j].device \in sigFailed)}}

\* C27: in every run the classification of all enumerated units is
\* complete before the first write to any unit, and no later step of the
\* run changes the protected set used by the filter and by the safety gate.
ClassifiedBeforeFirstWrite ==
    [][/\ content' # content => WholeInventoryClassified
       /\ pc \in {"wipe", "pass", "verify"} =>
             /\ osPartitions' = osPartitions
             /\ partitions' = partitions
             /\ wipePartitions' = wipePartitions]_vars

\* A chunk has been written on a host with a protected and a wipeable unit.
WroteAfterClassifying ==
    /\ pc = "pass"
    /\ eng.chunk > 0
    /\ Len(osPartitions) > 0
    /\ Len(partitions) > Len(osPartitions)
    /\ \E k \in 1..Len(partitions) : isOSPartition(platform, partitions[k], FALSE) /\ k > 1

\* C28: the orchestrator evaluates isSafeToWipe for a unit, against the
\* protected set of the run, immediately before every write pass on that
\* unit.  The code evaluates it before the first pass only.
GateBeforeEveryPass ==
    \A k \in 1..Len(ran) :
        \A j \in 1..Len(ran[k].fills) :
            \E g \in 1..Len(ran[k].gatedAt) : ran[k].gatedAt[g] + 1 = j

\* C28 as amended: isSafeToWipe is evaluated once for a unit, against the
\* protected set of the run, before the first pass on it, and the passes of
\* a unit are written only if the unit is not in that set.
GateOncePerUnit ==
    \A k \in 1..Len(ran) :
        /\ ran[k].gatedAt = <<0>>
        /\ invoked[k] \notin Devices(osPartitions)

\* A second pass has begun on a unit of a host with a protected unit.
SecondPassOnGatedUnit ==
    /\ Len(osPartitions) > 0
    /\ \E k \in 1..Len(ran) : Len(ran[k].fills) >= 2 /\ ran[k].gatedAt = <<0>>

\* C29: one unit is wiped and verified before the next begins: unit i is
\* verified before the first write to unit i + 1.  The code wipes every
\* unit first.
UnitVerifiedBeforeNextWiped ==
    \A k \in 1..Len(invoked) : k > 1 => invoked[k - 1] \in VerifiedDevices

\* C29 as amended: the wipeable units are overwritten one after another,
\* and only when all of them are overwritten are they verified, one after
\* another in the same order; nothing is written once verification began.
AllWipedBeforeAnyVerified ==
    verified # <<>> =>
        /\ pc \in {"verify", "done"}
        /\ eng = Idle
        /\ Len(invoked) = NumTargets
        /\ \A k \in 1..Len(verified) : verified[k].device = invoked[k]

\* Two units are overwritten and the first one has been verified.
FirstVerifiedAfterBothWiped ==
    /\ Len(invoked) = 2
    /\ Len(verified) = 1
    /\ build = "async"
    /\ Len(before[invoked[1]]) > 0
    /\ content[invoked[2]] # before[invoked[2]]

\* C30: the passes on one unit are strictly sequential, for every method:
\* a chunk is written by the pass begun last only, and only when every
\* pass before it has written the full capacity of the unit.
PassesStrictlySequential ==
    [][\A k \in 1..Len(ran) :
          \A j \in 1..Len(ran[k].chunks) :
             ran'[k].chunks[j] # ran[k].chunks[j] =>
                /\ k = Len(ran)
                /\ j = Len(ran[k].chunks)
                /\ \A m \in 1..Len(ran[k].chunks) :
                      m < j => ran[k].chunks[m] = Len(before[invoked[k]])]_vars

\* The second pass is writing a unit of full size.
SecondPassWriting ==
    \E k \in 1..Len(ran) :
        /\ Len(ran[k].chunks) >= 2
        /\ ran[k].chunks[2] > 0
        /\ Len(before[invoked[k]]) = MaxChunks

\* Pass j of engine call k is over: a later pass or a later call has begun,
\* or the call has returned to the wipe loop (the run may have ended since,
\* but not by a failed write).
PassOver(k, j) ==
    \/ k < Len(ran)
    \/ j < Len(ran[k].chunks)
    \/ pc \in {"wipe", "verify"}
    \/ pc = "done" /\ outcome.error # "WriteFailure"

\* C31: in every pass of every method the chunks written, from offset 0
\* on and one after the other, add up to the capacity the unit had before
\* the wipe started; a unit of non-zero capacity gets no pass that writes
\* nothing.  Stated of the engines that write (the simulated engine of
\* src/engine/overwrite.js writes no chunk at all).
PassCoversCapacity ==
    build # "simulated" =>
    \A k \in 1..Len(ran) :
        \A j \in 1..Len(ran[k].chunks) :
            PassOver(k, j) => ran[k].chunks[j] = Len(before[invoked[k]])

\* C32: for every method the engine emits a progress event after every
\* chunk, each carrying the pass index, the total number of passes and the
\* fraction written; the pass indices run 1..totalPasses without going
\* back, within a pass the fraction never decreases, and the last event of
\* every pass reports 100%.
ProgressEveryChunk ==
    \A k \in 1..Len(ran) :
        \A j \in 1..Len(ran[k].reports) :
            PassOver(k, j) =>
                LET r == ran[k].reports[j] IN
                /\ r.n >= ran[k].chunks[j]
                /\ r.n > 0 => /\ r.pass = j
                              /\ r.totalPasses = ran[k].total
                              /\ r.ordered
                              /\ r.last = 100

\* C33: every run over a finite inventory of finite units reaches one
\* terminal outcome, a returned result or a raised error, and after it no
\* unit is written or read, no progress event is emitted and the outcome
\* does not change.
RunTerminates ==
    /\ (pc # "idle") ~> (pc = "done" /\ outcome.status \in {"returned", "threw"})
    /\ [][pc = "done" => /\ pc' = "done"
                         /\ outcome' = outcome
                         /\ content' = content
                         /\ ran' = ran
                         /\ event' = event
                         /\ vres' = vres
                         /\ verified' = verified]_vars

\* A run over two wipeable units of full size has returned its result.
TwoUnitRunReturned ==
    /\ pc = "done"
    /\ outcome.status = "returned"
    /\ outcome.partitionsWiped = 2
    /\ \A d \in Range(invoked) : Len(before[d]) = MaxChunks

\* C34 as stated: wipeDevice writes only to a device the current
\* inventory lists as a wipeable unit; a path that is not among the
\* enumerated units is rejected before any write.
WipeDeviceOnlyInventoryUnits ==
    call.entry = "wipeDevice" =>
        \A d \in DOMAIN content :
            content[d] # before[d] =>
                d \in Devices(partitions) \ Devices(osPartitions)

\* C34: wipeDevice rejects, before any write, exactly the paths equal to
\* the device identifier of a unit that identifyOSPartitions returned as
\* protected: the call throws, the engine is not called and nothing is
\* written.  Every other path, enumerated or not, passes this check.
WipeDeviceRejectsProtectedPaths ==
    (call.entry = "wipeDevice" /\ pc \in {"wipe", "pass", "verify", "done"}) =>
        IF call.devicePath \in Devices(osPartitions)
        THEN /\ pc = "done"
             /\ outcome = Threw("Protected")
             /\ invoked = <<>>
             /\ content = before
        ELSE outcome.error # "Protected"

\* wipeDevice has written to a path that is not among the enumerated units.
WipeDeviceWroteOutsideInventory ==
    /\ call.entry = "wipeDevice"
    /\ call.devicePath \notin Devices(partitions)
    /\ Len(osPartitions) > 0
    /\ content[call.devicePath] # before[call.devicePath]
    /\ Len(content[call.devicePath]) = MaxChunks

\* The overwrite engine was called on d in this run and every pass of the
\* call is over.
EngineCompleted(d) ==
    \E k \in 1..Len(ran) :
        /\ invoked[k] = d
        /\ Len(ran[k].chunks) = ran[k].total
        /\ PassOver(k, ran[k].total)

\* C35: every unit handed to the verifier in a run had been handed to the
\* overwrite engine earlier in the run, and the engine had ended all its
\* passes on it; no unit that the wipe loop did not hand to the engine is
\* verified, counted in partitionsWiped or listed in the report.
VerifiedWereOverwritten ==
    WholeInventory =>
        /\ \A d \in VerifiedDevices : EngineCompleted(d)
        /\ pc = "verify" => \A d \in Devices(wipePartitions) : EngineCompleted(d)
        /\ outcome.status = "returned" =>
              /\ outcome.partitionsWiped =
                    Cardinality({d \in DOMAIN content : EngineCompleted(d)})
              /\ \A d \in Range(outcome.reportPartitions) : EngineCompleted(d)

\* A run over a host with a protected and a wipeable unit has returned its
\* report after verifying the one unit it wiped.
ReportedTheOneWipedUnit ==
    /\ call.entry = "executeAdvancedWipe"
    /\ outcome.status = "returned"
    /\ Len(osPartitions) = 1
    /\ Len(verified) = 1
    /\ outcome.reportPartitions = <<verified[1].device>>
    /\ content[verified[1].device] # before[verified[1].device]

\* C36: every overall progress value that executeWipe and
\* executeAdvancedWipe pass to the caller's callback is a number from 0 to
\* 100, no value is lower than the one before it, and only the completion
\* event carries 100.
OverallProgressInRange ==
    WholeInventory =>
        /\ shown.numbers
        /\ shown.ordered
        /\ ~ shown.early100

JobUpdatesCarryOwnId ==
    /\ ~ client.strayed
    /\ \A j \in Jobs :
         /\ client.terminal[j] <= 1
         /\ (client.wipe[j].pc = "reported" => client.terminal[j] = 1)

\* C39: whenever a job_status_update for an existing job with a status
\* and a progress value has been handled, the stored status of that job
\* is the reported status and job_status_updated was broadcast: a job
\* reported 'completed' does not stay 'pending'.
StatusUpdateStored ==
    (server.last.jobId \in Jobs /\ server.last.progress # "undefined")
        => /\ server.jobs[server.last.jobId].status = server.last.status
           /\ server.last.broadcast

====
